---- MODULE Spec2Model ----
(***************************************************************************)
(* Model of the Modbus transport of the Webasto Next integration           *)
(* (custom_components/webasto_next_modbus/hub.py): the ModbusBridge with   *)
(* its lock, its connection handle, the retry wrapper, the cached read     *)
(* plan and the life bit (keepalive) loop.                                 *)
(*                                                                         *)
(* Several specifications share the module:                                *)
(*   Spec      the bridge used by the keepalive task "ka" and a foreground *)
(*             task "fg"; every await of the code is a point where the     *)
(*             other task may run or where cancellation may be delivered.  *)
(*   CloseSpec the same bridge with a foreground task that only calls      *)
(*             async_close and async_connect; FairCloseSpec adds the timers*)
(*             that bound their waits.                                     *)
(*   LifeSpec  the start/stop handling of the keepalive task reference by  *)
(*             two callers whose calls may overlap.                        *)
(*   PlanSpec  _build_read_plan applied to the catalogs of a small         *)
(*             universe of register definitions.                           *)
(*   ReadSpec  the decoding loop of read_all over the plan of a catalog,   *)
(*             with responses that may be shorter than requested.          *)
(*   SoloSpec  the bridge used by the foreground task alone, the keepalive *)
(*             loop not running.                                           *)
(*   SimSpec   the register store of the virtual wallbox                   *)
(*             (virtual_wallbox/simulator.py) created from a scenario and  *)
(*             driven by writes, resets and direct updates.                *)
(*   ServerSpec the Modbus server adapter of the virtual wallbox            *)
(*             (virtual_wallbox/server.py): reads and writes on a data     *)
(*             block and through the device context.                       *)
(*   CoordSpec the failure bookkeeping of the data update coordinator      *)
(*             (coordinator.py) over sequences of update outcomes.         *)
(*   UnloadSpec the keepalive task and the unload of its config entry.     *)
(*   LoopSpec  the keepalive loop call by call, with its poll window and   *)
(*             the seconds that pass.                                      *)
(*   EntrySpec the setup and unload of config entries and the services.    *)
(*   ServiceSpec the write service handlers (__init__.py) next to the      *)
(*             updates of the coordinator.                                 *)
(***************************************************************************)
EXTENDS Integers, Sequences, FiniteSets, TLC

\* ------------------------------------------------------------------ bounds
\* number of requests of the read plan that the model keeps
NumBlocks == 2
\* number of keepalive task objects that may be created in one behaviour
MaxTasks == 3

\* number of register definitions of a catalog
MaxDefs == 3

\* number of updates of the coordinator in one behaviour
MaxUpdates == 10

\* --------------------------------------------------------------- constants
MAX_RETRY_ATTEMPTS == 3
MAX_REGISTERS_PER_REQUEST == 110

None == 0
\* value of a task reference that refers to no task
NoTask == "none"

Tasks == {"ka", "fg"}
TaskIds == 1..MaxTasks
Callers == {"c1", "c2"}

\* operations of the bridge that a task may be executing
RetryOps == {"read_register", "read_all", "write_register"}

\* getattr on a RegisterDefinition succeeds only for a declared field
HasAttr(field) ==
    LET
        \* fields of the frozen, slotted dataclass RegisterDefinition
        RegisterDefinitionFields ==
            {"key", "name", "address", "count", "register_type", "data_type", "entity",
             "scale", "unit", "device_class", "state_class", "icon", "entity_category",
             "options", "writable", "write_only", "min_value", "max_value", "step",
             "encoding", "translation_key"}
    IN
                  field \in RegisterDefinitionFields

\* self._read_plan after __init__: one request per block, ascending address
InitialPlan == [i \in 1..NumBlocks |-> i]

VARIABLES
    pc,          \* [Tasks -> label]: the await at which each task is suspended
    op,          \* [Tasks -> operation in progress]
    phase,       \* step of the keepalive cycle ("timeout", "write", "poll")
    attempt,     \* [Tasks -> attempt number of the retry wrapper]
    lastErr,     \* [Tasks -> attempt that raised last_err, 0 if none]
    lockOwner,   \* holder of self._lock, NoTask if free
    client,      \* self._client: a client id, None if absent
    clientUp,    \* client.connected of the client in the handle
    reqClient,   \* [Tasks -> client on which the task's request is in flight]
    failedClient,\* [Tasks -> client used by the last failed attempt of the call]
    fresh,       \* [Tasks -> the handle was installed after the teardown of the
                 \*  task's last failed attempt]
    readPlan,    \* self._read_plan
    todo,        \* [Tasks -> requests left in the plan iteration of read_all]
    data,        \* [Tasks -> the dict built by the running read_all attempt]
    result,      \* [Tasks -> outcome of the last finished call of the foreground]
    forced,      \* [Tasks -> the last direct async_close took the timeout path]
    cancelledAt, \* [Tasks -> where the task was suspended when CancelledError
                 \*  was thrown into it, NoCancel if it was not cancelled]
    protoErr,    \* blocks for which read_all has received an error response
    lifeBitTask, \* self._life_bit_task: a task id, None if absent
    taskState,   \* [TaskIds -> "unborn", "running", "cancelling", "done"]
    cpc,         \* [Callers -> "idle", "stop_wait"]
    target,      \* [Callers -> task awaited by stop_life_bit_loop]
    cres,        \* [Callers -> what the caller's last finished call did]
    definitions, \* the catalog passed to _build_read_plan
    requests,    \* the tuple of ReadRequest built from the catalog
    stage,       \* "catalog", "planned", "reading", "returned"
    cursor,      \* number of requests of the plan read_all has handled
    received,    \* number of words of the response to each handled request
    decoded,     \* the dict `data` of read_all: key -> value
    scenario,    \* the Scenario the virtual wallbox is created from
    simState,    \* "none", "ready", or "failed" if create_state raised
    inputRegisters,   \* VirtualWallboxState._input_registers
    holdingRegisters, \* VirtualWallboxState._holding_registers
    simRaised,   \* the exception raised by the last call on the simulator
    lastCommand, \* the last start or stop value written to the session
                 \* command register, None before the first
    commandsOnly, \* no call other than such writes was made on the simulator
    lastCall,    \* the last call made on the simulator: "none", "create",
                 \* "write", "reset" or "apply"
    served,      \* the last request made on the Modbus server of the virtual
                 \* wallbox, with the values it returned
    coordinator, \* the fields of the WebastoDataCoordinator and whether its
                 \* failure notification exists
    observed,    \* what the last update of the coordinator did, and the
                 \* history of the updates
    service,     \* the service handler called last: the writes it still has
                 \* to make, the exception it raised and the log of its
                 \* writes and effects
    hass,        \* hass.data[DOMAIN] (whether it exists, and its keys), whether
                 \* the services are registered, the entries that are loaded
                 \* or failed to unload, and the last setup or unload
    loop         \* _life_bit_loop seen call by call: the await it is at, its
                 \* poll_timeout, the seconds since start_time, and of the
                 \* past the timeout values read, whether the read of
                 \* this cycle raised and how the last poll loop ended

bridgeVars == <<pc, op, phase, attempt, lastErr, lockOwner, client, clientUp,
                reqClient, failedClient, fresh,
                readPlan, todo, data, result, forced, cancelledAt, protoErr>>
lifeVars == <<lifeBitTask, taskState, cpc, target, cres>>
planVars == <<definitions, requests, stage, cursor, received, decoded>>
\* the parts that are computed without the connection
simVars == <<scenario, simState, inputRegisters, holdingRegisters, simRaised,
             lastCommand, commandsOnly, lastCall, served>>
hostVars == <<coordinator, observed, service, loop, hass>>
offlineVars == <<planVars, simVars, hostVars>>
vars == <<bridgeVars, lifeVars, offlineVars>>

\* a dict with no key
EmptyData == <<>>

NoResult == [op |-> "none", kind |-> "none", err |-> 0, attempts |-> 0,
             failed |-> 0, data |-> EmptyData]

NoCancel == [at |-> "none", op |-> "none", phase |-> "none"]

\* the bridge after ModbusBridge.__init__, the keepalive task created
BridgeInit ==
    /\ pc = [t \in Tasks |-> IF t = "ka" THEN "acquire" ELSE "idle"]
    /\ op = [t \in Tasks |-> IF t = "ka" THEN "read_register" ELSE "none"]
    /\ phase = "timeout"
    /\ attempt = [t \in Tasks |-> IF t = "ka" THEN 1 ELSE 0]
    /\ lastErr = [t \in Tasks |-> 0]
    /\ lockOwner = NoTask
    /\ client = None
    /\ clientUp = FALSE
    /\ reqClient = [t \in Tasks |-> None]
    /\ failedClient = [t \in Tasks |-> None]
    /\ fresh = [t \in Tasks |-> FALSE]
    /\ readPlan = InitialPlan
    /\ todo = [t \in Tasks |-> <<>>]
    /\ data = [t \in Tasks |-> EmptyData]
    /\ result = [t \in Tasks |-> NoResult]
    /\ forced = [t \in Tasks |-> FALSE]
    /\ cancelledAt = [t \in Tasks |-> NoCancel]
    /\ protoErr = {}

\* no keepalive task was ever started
LifeInit ==
    /\ lifeBitTask = None
    /\ taskState = [k \in TaskIds |-> "unborn"]
    /\ cpc = [c \in Callers |-> "idle"]
    /\ target = [c \in Callers |-> None]
    /\ cres = [c \in Callers |-> "none"]

\* no catalog is looked at
PlanIdle ==
    /\ definitions = <<>>
    /\ requests = <<>>
    /\ stage = "catalog"
    /\ cursor = 0
    /\ received = <<>>
    /\ decoded = <<>>

\* no request was made on the Modbus server
NotServed ==
    [call |-> "none", path |-> "block", zero_mode |-> FALSE,
     register_type |-> "holding", address |-> 0, values |-> <<>>]

\* no virtual wallbox exists
SimIdle ==
    /\ scenario = "none"
    /\ simState = "none"
    /\ inputRegisters = <<>>
    /\ holdingRegisters = <<>>
    /\ simRaised = "none"
    /\ lastCommand = None
    /\ commandsOnly = FALSE
    /\ lastCall = "none"
    /\ served = NotServed

\* the integration's objects on the host platform before they are used:
\* WebastoDataCoordinator.__init__, before the first update and before the
\* first service call, _life_bit_loop at the top of its first cycle, and
\* the host before the first config entry is set up
HostIdle ==
    /\ coordinator = [consecutive_failures |-> 0, connection_online |-> TRUE,
                      notification |-> FALSE]
    /\ observed = [outcome |-> "none", created |-> FALSE, dismissed |-> FALSE,
                   fired |-> "none", failedSince |-> 0, lastHandled |-> "none",
                   lastFired |-> "none", updates |-> 0]
    /\ service = [handler |-> "none", todo |-> <<>>, raised |-> "none",
                  log |-> <<>>]
    /\ loop = [at |-> "read_timeout", poll_timeout |-> 60, waited |-> 0,
               last_known |-> <<>>, read_failed |-> FALSE, ended |-> "none"]
    /\ hass = [present |-> FALSE, keys |-> {}, services |-> FALSE, loaded |-> {},
               failed |-> {}, last |-> <<"none", "none", TRUE>>]

Init == BridgeInit /\ LifeInit /\ PlanIdle /\ SimIdle /\ HostIdle

\* ------------------------------------------------------- task-local state
\* the local state of task t as one record
Local(t) ==
    [pc |-> pc[t], op |-> op[t], phase |-> phase, attempt |-> attempt[t],
     lastErr |-> lastErr[t], reqClient |-> reqClient[t],
     failedClient |-> failedClient[t], fresh |-> fresh[t],
     todo |-> todo[t], data |-> data[t], result |-> result[t],
     forced |-> forced[t], cancelledAt |-> cancelledAt[t]]

\* task t continues with local state r; `installed` tells that the step has
\* put a newly connected client into the handle
Update(t, r, installed) ==
    /\ pc' = [pc EXCEPT ![t] = r.pc]
    /\ op' = [op EXCEPT ![t] = r.op]
    /\ phase' = r.phase
    /\ attempt' = [attempt EXCEPT ![t] = r.attempt]
    /\ lastErr' = [lastErr EXCEPT ![t] = r.lastErr]
    /\ reqClient' = [reqClient EXCEPT ![t] = r.reqClient]
    /\ failedClient' = [failedClient EXCEPT ![t] = r.failedClient]
    /\ todo' = [todo EXCEPT ![t] = r.todo]
    /\ data' = [data EXCEPT ![t] = r.data]
    /\ result' = [result EXCEPT ![t] = r.result]
    /\ forced' = [forced EXCEPT ![t] = r.forced]
    /\ cancelledAt' = [cancelledAt EXCEPT ![t] = r.cancelledAt]
    /\ fresh' = [u \in Tasks |->
                    IF installed THEN (IF u = t THEN r.lastErr ELSE lastErr[u]) > 0
                    ELSE IF u = t THEN r.fresh ELSE fresh[u]]

\* task t continues with local state r; the other task is left alone
SetLocal(t, r) == Update(t, r, FALSE)

\* the foreground task makes a new call: what is remembered of a cancellation
\* of its previous call is dropped
Fresh(l) == [l EXCEPT !.cancelledAt = NoCancel]

\* entry of _call_with_retry for operation o: attempt 1 is about to take the lock
Started(l, o, ph, res) ==
    [l EXCEPT !.pc = "acquire", !.op = o, !.phase = ph, !.attempt = 1,
              !.lastErr = 0, !.reqClient = None, !.failedClient = None,
              !.fresh = FALSE, !.todo = <<>>, !.data = EmptyData,
              !.result = res,
              !.forced = IF o = "connect" THEN l.forced ELSE FALSE]

\* a task that is in no call
Resting(l, label, res) ==
    [l EXCEPT !.pc = label, !.op = "none", !.attempt = 0, !.lastErr = 0,
              !.reqClient = None, !.failedClient = None, !.fresh = FALSE,
              !.todo = <<>>, !.data = EmptyData, !.result = res]

\* ---------------------------------------------------------- except clauses
\* mutant: the wrapper treats a cancellation like a transport error
WrapperCatchesMutant(kind) == kind \in {"WebastoModbusError", "CancelledError"}

\* _call_with_retry: `except asyncio.CancelledError: raise` precedes
\* `except WebastoModbusError`; every other exception is not caught
WrapperCatches(kind) == kind = "WebastoModbusError"

\* mutant: a bare `except:` around the read of the timeout register
InnerCatchesMutant(kind) == TRUE

\* _life_bit_loop, read of the timeout register: `except Exception: pass`
\* (CancelledError derives from BaseException)
InnerCatches(kind) == kind # "CancelledError"

\* mutant: the loop handles WebastoModbusError only
LoopCatchesMutant(kind) == kind = "WebastoModbusError"

\* _life_bit_loop: `except asyncio.CancelledError: raise`, then
\* `except Exception` with the error backoff
LoopCatches(kind) == kind # "CancelledError"

\* mutant: the budget check is off by one
IsFinalAttemptMutant(a) == a = MAX_RETRY_ATTEMPTS + 1

\* `if attempt == MAX_RETRY_ATTEMPTS: break`
IsFinalAttempt(a) == a = MAX_RETRY_ATTEMPTS

\* mutant: async_close closes the client but keeps it in the handle
ClearedHandleMutant(c) == c

\* the value async_close leaves in self._client
ClearedHandle(c) == None

\* mutant: the request is issued without waiting for the lock
CanAcquireMutant(owner) == TRUE

\* asyncio.Lock: acquire succeeds only while nobody holds the lock
CanAcquire(owner) == owner = NoTask

\* ------------------------------------------------------------ end of calls
Outcome(l, kind) ==
    LET
        \* the error object raised by `raise last_err`
        RaisedError == l.lastErr
    IN
    [op |-> l.op, kind |-> kind,
     err |-> IF kind = "WebastoModbusError" /\ l.op \in RetryOps
             THEN RaisedError ELSE 0,
     attempts |-> l.attempt,
     failed |-> l.lastErr,
     data |-> IF kind = "ok" /\ l.op = "read_all" THEN l.data ELSE EmptyData]

\* the call of task t ends by raising `kind` to its caller
Raised(t, l, kind) ==
    LET
        \* _life_bit_loop after the call of the current phase raised `kind`
        KaRaised ==
            IF l.phase = "timeout" /\ InnerCatches(kind)
            THEN Started(l, "write_register", "write", l.result)
            ELSE IF LoopCatches(kind)
            THEN [Resting(l, "err_backoff", l.result) EXCEPT !.phase = "timeout"]
            ELSE [Resting(l, "done", Outcome(l, kind)) EXCEPT !.phase = "timeout"]
    IN
    IF t = "ka" THEN KaRaised ELSE Resting(l, "idle", Outcome(l, kind))

\* mutant: the loop polls the life bit right behind the read of the timeout
ReturnedMutant(t, l, v, elapsed) ==
    IF t # "ka" THEN Resting(l, "idle", Outcome(l, "ok"))
    ELSE IF l.phase = "timeout" \/ (l.phase = "write" /\ ~elapsed)
    THEN Started(l, "read_register", "poll", l.result)
    ELSE IF l.phase = "write" \/ v = 0
    THEN Started(l, "read_register", "timeout", l.result)
    ELSE Resting(l, "poll_sleep", l.result)

\* the call of task t returns normally
Returned(t, l, v, elapsed) ==
    LET
        \* _life_bit_loop after the call of the current phase returned; v is the value
        \* read, elapsed tells whether the poll window is over
        KaReturned ==
            LET res == l.result
                nextCycle == Started(l, "read_register", "timeout", res)
                nextPoll == Started(l, "read_register", "poll", res)
            IN IF l.phase = "timeout" THEN Started(l, "write_register", "write", res)
               ELSE IF l.phase = "write" THEN (IF elapsed THEN nextCycle ELSE nextPoll)
               ELSE IF v = 0 THEN nextCycle
               ELSE Resting(l, "poll_sleep", res)
    IN
    IF t = "ka" THEN KaReturned
    ELSE Resting(l, "idle", Outcome(l, "ok"))

\* an attempt (func()) of task t raises `kind` inside _call_with_retry
AttemptRaised(t, l, kind) ==
    LET
        \* _call_with_retry, `except WebastoModbusError`: last_err = err, then
        \* `await self.async_close()`
        Failed ==
            [l EXCEPT !.pc = "close_wait", !.lastErr = l.attempt,
                      !.failedClient = l.reqClient, !.reqClient = None,
                      !.todo = <<>>, !.data = EmptyData]
    IN
    IF WrapperCatches(kind) THEN Failed ELSE Raised(t, l, kind)

\* self._lock after task t moved on to local state r: the lock is held from
\* `async with self._lock` to the end of the block, whichever way it is left
LockAfter(t, r) ==
    IF r.op \in RetryOps /\ r.pc \in {"connecting", "inflight"} THEN t
    ELSE IF lockOwner = t THEN NoTask
    ELSE lockOwner

\* ------------------------------------------------------------ the requests
\* `all(reg.optional for reg in request.registers)`: the attribute lookup
\* raises AttributeError when the definitions do not have the field
AllOptional(b) ==
    LET
        \* blocks of the plan whose definitions the firmware may not support and
        \* that are meant to be optional; RegisterDefinition itself has no such field
        IntendedOptional == {NumBlocks}
    IN b \in IntendedOptional

\* d[k] = v of a dict
Put(d, k, v) == [x \in (DOMAIN d) \cup {k} |-> IF x = k THEN v ELSE d[x]]

\* the task holds the lock and async_connect has returned: the first request
\* is passed to the client in self._client (read_all with an empty plan
\* returns its empty dict at once)
Issue(t, l, c) ==
    IF l.op = "read_all"
    THEN IF readPlan = <<>>
         THEN Returned(t, [l EXCEPT !.data = EmptyData], 0, FALSE)
         ELSE [l EXCEPT !.pc = "inflight", !.reqClient = c, !.todo = readPlan,
                        !.data = EmptyData]
    ELSE [l EXCEPT !.pc = "inflight", !.reqClient = c]

\* mutant: read_all returns its dict after the first request
IssueNextMutant(t, l, c, rest) == Returned(t, l, 0, FALSE)

\* read_all goes on with the requests `rest` of the plan it iterates: the
\* bound method is looked up on self._client, which is c now
IssueNext(t, l, c, rest) ==
    IF rest = <<>> THEN Returned(t, l, 0, FALSE)
    ELSE IF c = None THEN AttemptRaised(t, l, "AttributeError")
    ELSE [l EXCEPT !.reqClient = c, !.todo = rest]

\* `self._client_cls(...)`: a new client object, named by the first name that
\* neither the handle nor a task refers to
NewClient ==
    LET
        \* names for client objects: at most one in the handle and two per task are
        \* referred to at any time, and a name nobody refers to is used again
        ClientIds == 1..5
    IN
    LET used == {client} \cup {reqClient[t] : t \in Tasks}
                         \cup {failedClient[t] : t \in Tasks}
    IN CHOOSE c \in ClientIds : c \notin used /\ \A d \in ClientIds \ used : c <= d

\* ----------------------------------------------------------------- actions
sharedVars == <<lockOwner, client, clientUp, readPlan, protoErr>>

\* mutant: every register may be written
RefusedMutant(o, writable) == FALSE

\* async_write_register: `if not register.writable: raise ValueError(...)`
Refused(o, writable) == o = "write_register" /\ ~writable

\* the foreground task calls async_read_register, async_read_data or
\* async_write_register; `writable` is the flag of the register definition.
\* A refused write raises before _call_with_retry is entered.
StartCall(t, o, writable) ==
    /\ t = "fg" /\ pc[t] = "idle" /\ o \in RetryOps
    /\ LET l == Fresh(Local(t))
       IN SetLocal(t, IF Refused(o, writable)
                      THEN Resting(l, "idle",
                                   Outcome([l EXCEPT !.op = o], "ValueError"))
                      ELSE Started(l, o, phase, NoResult))
    /\ UNCHANGED <<sharedVars, lifeVars, offlineVars>>

\* `async with self._lock:` followed by the part of async_connect before its
\* await: a connected client is used as it is
Acquire(t) ==
    /\ pc[t] = "acquire"
    /\ CanAcquire(lockOwner)
    /\ LET r == IF client # None /\ clientUp
                THEN Issue(t, Local(t), client)
                ELSE [Local(t) EXCEPT !.pc = "connecting"]
       IN /\ SetLocal(t, r)
          /\ lockOwner' = LockAfter(t, r)
    /\ UNCHANGED <<client, clientUp, readPlan, protoErr, lifeVars, offlineVars>>

\* `await client.connect()` returns or raises, in an attempt (lock held) or
\* in a direct call of async_connect (op = "connect", no lock). A reachable
\* peer gives a connected client, which becomes the handle; with an
\* unreachable peer connect() returns with client.connected false
\* (WebastoModbusError) or raises the client's own exception.
ConnectDone(t, reachable) ==
    /\ pc[t] = "connecting"
    /\ \/ /\ reachable
          /\ client' = NewClient
          /\ clientUp' = TRUE
          /\ LET r == IF op[t] = "connect"
                      THEN Returned(t, Local(t), 0, FALSE)
                      ELSE Issue(t, Local(t), NewClient)
             IN Update(t, r, TRUE) /\ lockOwner' = LockAfter(t, r)
       \/ /\ ~reachable
          /\ \E kind \in {"WebastoModbusError", "ModbusException"} :
                LET r == IF op[t] = "connect"
                         THEN Raised(t, Local(t), kind)
                         ELSE AttemptRaised(t, Local(t), kind)
                IN SetLocal(t, r) /\ lockOwner' = LockAfter(t, r)
          /\ UNCHANGED <<client, clientUp>>
    /\ UNCHANGED <<readPlan, protoErr, lifeVars, offlineVars>>

\* the response of a single read or write arrives: "ok", an error response
\* ("error", isError()) or the client's exception ("exc"); v is the value read
ResponseSingle(t, resp, v, elapsed) ==
    /\ pc[t] = "inflight" /\ op[t] \in {"read_register", "write_register"}
    /\ LET r == IF resp = "ok" THEN Returned(t, Local(t), v, elapsed)
                ELSE AttemptRaised(t, Local(t), "WebastoModbusError")
       IN SetLocal(t, r) /\ lockOwner' = LockAfter(t, r)
    /\ UNCHANGED <<client, clientUp, readPlan, protoErr, lifeVars, offlineVars>>

\* the response of one request of read_all arrives
ResponseBlock(t, resp) ==
    LET
        \* `tuple(r for r in self._read_plan if r.start_address != request.start_address)`
        Pruned(plan, b) ==
            LET
                \* start address of the i-th request of the plan built from the catalog
                StartAddress(i) == IF i = 1 THEN 1000
                                   ELSE IF i = 2 THEN 1001
                                   ELSE IF i = 3 THEN 1002
                                   ELSE 1000 + 2 * (i - 2)
            IN
            SelectSeq(plan, LAMBDA r : StartAddress(r) # StartAddress(b))
    IN
    /\ pc[t] = "inflight" /\ op[t] = "read_all"
    /\ LET l == Local(t)
           b == Head(l.todo)
           rest == Tail(l.todo)
           stamped == [l EXCEPT !.data = Put(l.data, b, l.attempt)]
           nulled == [l EXCEPT !.data = Put(l.data, b, None)]
           r == IF resp = "exc" THEN AttemptRaised(t, l, "WebastoModbusError")
                ELSE IF resp = "ok" THEN IssueNext(t, stamped, client, rest)
                ELSE IF ~HasAttr("optional")
                THEN AttemptRaised(t, l, "AttributeError")
                ELSE IssueNext(t, nulled, client, rest)
       IN /\ SetLocal(t, r)
          /\ lockOwner' = LockAfter(t, r)
          /\ readPlan' = IF resp = "error" /\ HasAttr("optional") /\ AllOptional(b)
                         THEN Pruned(readPlan, b) ELSE readPlan
    /\ protoErr' = IF resp = "error" /\ AllOptional(Head(todo[t]))
                   THEN protoErr \cup {Head(todo[t])} ELSE protoErr
    /\ UNCHANGED <<client, clientUp, lifeVars, offlineVars>>

\* what follows `await self.async_close()`: the direct caller gets its return;
\* _call_with_retry raises last_err after the final attempt and sleeps
\* RETRY_BACKOFF_SECONDS * attempt otherwise
AfterClose(t, l) ==
    IF l.op = "close" THEN Returned(t, l, 0, FALSE)
    ELSE IF IsFinalAttempt(l.attempt)
    THEN Raised(t, l, "WebastoModbusError")
    ELSE [l EXCEPT !.pc = "backoff"]

\* mutant: close() is called on whatever the handle held
MustCloseMutant(c) == TRUE

\* `if client is not None:` of async_close
MustClose(c) == c # None

\* async_close, after the handle was taken: a client that was present is
\* closed (`await asyncio.wait_for(close_result, timeout=3.0)`)
Closing(t, l, wasForced) ==
    LET m == [l EXCEPT !.forced = IF l.op = "close" THEN wasForced ELSE @,
                       !.fresh = FALSE]
    IN IF MustClose(client) THEN [m EXCEPT !.pc = "closing"] ELSE AfterClose(t, m)

\* async_close gets the lock within its 2 s: client = self._client,
\* self._client = None, and the lock is released again
CloseAcquire(t) ==
    /\ pc[t] = "close_wait"
    /\ CanAcquire(lockOwner)
    /\ client' = ClearedHandle(client)
    /\ clientUp' = IF client' = None THEN FALSE ELSE clientUp
    /\ SetLocal(t, Closing(t, Local(t), FALSE))
    /\ UNCHANGED <<lockOwner, readPlan, protoErr, lifeVars, offlineVars>>

\* mutant: async_close waits for the lock without a timeout
CloseTimeoutMutant(t) ==
    /\ pc[t] = "close_wait"
    /\ FALSE
    /\ UNCHANGED vars

\* async_close does not get the lock within its 2 s because another task
\* holds it: `except TimeoutError` takes and clears the handle all the same
CloseTimeout(t) ==
    /\ pc[t] = "close_wait"
    /\ ~CanAcquire(lockOwner)
    /\ client' = ClearedHandle(client)
    /\ clientUp' = IF client' = None THEN FALSE ELSE clientUp
    /\ SetLocal(t, Closing(t, Local(t), TRUE))
    /\ UNCHANGED <<lockOwner, readPlan, protoErr, lifeVars, offlineVars>>

\* client.close() has finished (or has run into its 3 s timeout)
CloseDone(t) ==
    /\ pc[t] = "closing"
    /\ SetLocal(t, AfterClose(t, Local(t)))
    /\ UNCHANGED <<sharedVars, lifeVars, offlineVars>>

\* `await asyncio.sleep(RETRY_BACKOFF_SECONDS * attempt)` is over: next attempt
BackoffDone(t) ==
    /\ pc[t] = "backoff"
    /\ SetLocal(t, [Local(t) EXCEPT !.pc = "acquire", !.attempt = @ + 1])
    /\ UNCHANGED <<sharedVars, lifeVars, offlineVars>>

\* labels at which a task is suspended in an await
InAttempt == {"acquire", "connecting", "inflight"}
\* CancelledError is thrown into task t at the await where it is suspended.
\* Inside func() it passes the except clauses of _call_with_retry; inside the
\* handler of WebastoModbusError (async_close, backoff sleep) and in the sleeps
\* of the loop it is raised from the handler or from the try body.
Cancel(t) ==
    LET
        InLoopSleep == {"poll_sleep", "err_backoff"}
        InHandler == {"close_wait", "closing", "backoff"}
    IN
    /\ pc[t] \in InAttempt \cup InHandler \cup InLoopSleep
    /\ LET l == [Local(t) EXCEPT !.cancelledAt =
                     [at |-> pc[t], op |-> op[t],
                      phase |-> IF t = "ka" THEN phase ELSE "none"]]
           r == IF l.pc \in InAttempt /\ l.op \in RetryOps
                THEN AttemptRaised(t, l, "CancelledError")
                ELSE IF l.pc = "err_backoff"
                THEN [Resting(l, "done", Outcome(l, "CancelledError"))
                         EXCEPT !.phase = "timeout"]
                ELSE Raised(t, l, "CancelledError")
       IN SetLocal(t, r) /\ lockOwner' = LockAfter(t, r)
    /\ UNCHANGED <<client, clientUp, readPlan, protoErr, lifeVars, offlineVars>>

\* `await asyncio.sleep(1)` of the poll loop is over: the window is checked
PollSleepDone(elapsed) ==
    /\ pc["ka"] = "poll_sleep"
    /\ LET l == Local("ka")
       IN SetLocal("ka", Started(l, "read_register",
                                 IF elapsed THEN "timeout" ELSE "poll", l.result))
    /\ UNCHANGED <<sharedVars, lifeVars, offlineVars>>

\* `await asyncio.sleep(5)` of the error handler is over: a new cycle starts
ErrBackoffDone ==
    /\ pc["ka"] = "err_backoff"
    /\ LET l == Local("ka")
       IN SetLocal("ka", Started(l, "read_register", "timeout", l.result))
    /\ UNCHANGED <<sharedVars, lifeVars, offlineVars>>

\* the foreground task calls async_close
StartClose(t) ==
    /\ t = "fg" /\ pc[t] = "idle"
    /\ SetLocal(t, [Started(Fresh(Local(t)), "close", phase, NoResult)
                       EXCEPT !.pc = "close_wait", !.attempt = 0])
    /\ UNCHANGED <<sharedVars, lifeVars, offlineVars>>

\* the foreground task calls async_connect: a no-op on a connected client
StartConnect(t) ==
    /\ t = "fg" /\ pc[t] = "idle"
    /\ LET l == [Started(Fresh(Local(t)), "connect", phase, NoResult)
                    EXCEPT !.pc = "connecting", !.attempt = 0]
       IN SetLocal(t, IF client # None /\ clientUp
                      THEN Returned(t, l, 0, FALSE) ELSE l)
    /\ UNCHANGED <<sharedVars, lifeVars, offlineVars>>

\* the TCP connection of the client in the handle is lost
ConnectionLost ==
    /\ client # None /\ clientUp
    /\ clientUp' = FALSE
    /\ UNCHANGED <<pc, op, phase, attempt, lastErr, reqClient, failedClient,
                   fresh, todo, data, result, forced, cancelledAt,
                   lockOwner, client, readPlan, protoErr, lifeVars, offlineVars>>

Next ==
    \/ \E o \in RetryOps, writable \in BOOLEAN : StartCall("fg", o, writable)
    \/ \E t \in Tasks : Acquire(t)
    \/ \E t \in Tasks, reachable \in BOOLEAN : ConnectDone(t, reachable)
    \/ \E t \in Tasks, resp \in {"ok", "error", "exc"}, v \in {0, 1}, e \in BOOLEAN :
          ResponseSingle(t, resp, v, e)
    \/ \E resp \in {"ok", "error", "exc"} : ResponseBlock("fg", resp)
    \/ \E t \in Tasks : CloseAcquire(t)
    \/ \E t \in Tasks : CloseTimeout(t)
    \/ \E t \in Tasks : CloseDone(t)
    \/ \E t \in Tasks : BackoffDone(t)
    \/ \E t \in Tasks : Cancel(t)
    \/ \E e \in BOOLEAN : PollSleepDone(e)
    \/ ErrBackoffDone
    \/ StartClose("fg")
    \/ StartConnect("fg")
    \/ ConnectionLost

Spec == Init /\ [][Next]_vars

\* The bridge with a foreground task that only closes and connects while the
\* keepalive task reads and writes.
CloseNext ==
    \/ \E t \in Tasks : Acquire(t)
    \/ \E t \in Tasks, reachable \in BOOLEAN : ConnectDone(t, reachable)
    \/ \E t \in Tasks, resp \in {"ok", "error", "exc"}, v \in {0, 1}, e \in BOOLEAN :
          ResponseSingle(t, resp, v, e)
    \/ \E t \in Tasks : CloseAcquire(t)
    \/ \E t \in Tasks : CloseTimeout(t)
    \/ \E t \in Tasks : CloseDone(t)
    \/ \E t \in Tasks : BackoffDone(t)
    \/ \E t \in Tasks : Cancel(t)
    \/ \E e \in BOOLEAN : PollSleepDone(e)
    \/ ErrBackoffDone
    \/ StartClose("fg")
    \/ StartConnect("fg")
    \/ ConnectionLost

CloseSpec == Init /\ [][CloseNext]_vars

\* The waits of a direct async_close and async_connect are bounded by timers
\* (asyncio.timeout(2.0) on the lock, wait_for(..., 3.0) on client.close(),
\* the client's connect timeout), so the foreground task leaves each of them.
\* Nothing is assumed about the task that holds the lock.
FairCloseSpec ==
    /\ CloseSpec
    /\ WF_vars(CloseAcquire("fg") \/ CloseTimeout("fg"))
    /\ WF_vars(CloseDone("fg"))
    /\ WF_vars(\E reachable \in BOOLEAN : ConnectDone("fg", reachable))

\* The bridge right after ModbusBridge.__init__, used by one task only: the
\* keepalive task was not started (the bridge of the config flow).
SoloInit ==
    /\ pc = [t \in Tasks |-> IF t = "ka" THEN "done" ELSE "idle"]
    /\ op = [t \in Tasks |-> "none"]
    /\ phase = "timeout"
    /\ attempt = [t \in Tasks |-> 0]
    /\ lastErr = [t \in Tasks |-> 0]
    /\ lockOwner = NoTask
    /\ client = None
    /\ clientUp = FALSE
    /\ reqClient = [t \in Tasks |-> None]
    /\ failedClient = [t \in Tasks |-> None]
    /\ fresh = [t \in Tasks |-> FALSE]
    /\ readPlan = InitialPlan
    /\ todo = [t \in Tasks |-> <<>>]
    /\ data = [t \in Tasks |-> EmptyData]
    /\ result = [t \in Tasks |-> NoResult]
    /\ forced = [t \in Tasks |-> FALSE]
    /\ cancelledAt = [t \in Tasks |-> NoCancel]
    /\ protoErr = {}
    /\ LifeInit /\ PlanIdle /\ SimIdle /\ HostIdle

SoloNext ==
    \/ \E o \in RetryOps, writable \in BOOLEAN : StartCall("fg", o, writable)
    \/ Acquire("fg")
    \/ \E reachable \in BOOLEAN : ConnectDone("fg", reachable)
    \/ \E resp \in {"ok", "error", "exc"}, v \in {0, 1}, e \in BOOLEAN :
          ResponseSingle("fg", resp, v, e)
    \/ \E resp \in {"ok", "error", "exc"} : ResponseBlock("fg", resp)
    \/ CloseAcquire("fg")
    \/ CloseDone("fg")
    \/ BackoffDone("fg")
    \/ StartClose("fg")
    \/ StartConnect("fg")
    \/ ConnectionLost

SoloSpec == SoloInit /\ [][SoloNext]_vars

\* ------------------------------------------------ unload of a config entry
\* mutant: async_unload_entry closes the connection without having stopped
\* the keepalive loop
UnloadClosesMutant == StartClose("fg")

\* async_unload_entry: `await runtime.bridge.async_close()` stands behind
\* `await runtime.bridge.stop_life_bit_loop()`, which returns when the
\* cancelled keepalive task has terminated
UnloadCloses ==
    /\ pc["ka"] = "done"
    /\ StartClose("fg")

\* The keepalive task of a loaded entry reads and writes until
\* async_unload_entry cancels it (stop_life_bit_loop) and then closes the
\* connection; the foreground task is the one that unloads.
UnloadNext ==
    \/ Acquire("ka")
    \/ \E reachable \in BOOLEAN : ConnectDone("ka", reachable)
    \/ \E resp \in {"ok", "error", "exc"}, v \in {0, 1}, e \in BOOLEAN :
          ResponseSingle("ka", resp, v, e)
    \/ \E t \in Tasks : CloseAcquire(t)
    \/ \E t \in Tasks : CloseDone(t)
    \/ BackoffDone("ka")
    \/ Cancel("ka")
    \/ \E e \in BOOLEAN : PollSleepDone(e)
    \/ ErrBackoffDone
    \/ UnloadCloses
    \/ ConnectionLost

UnloadSpec == Init /\ [][UnloadNext]_vars

\* ------------------------------------------- start and stop of the keepalive
\* Task.done()
Done(k) == taskState[k] = "done"

\* start_life_bit_loop (it has no await): a no-op while the referenced task
\* runs, asyncio.create_task otherwise
StartLifeBitLoop(c) ==
    LET
        \* `if self._life_bit_task and not self._life_bit_task.done(): return`
        AlreadyRunning == lifeBitTask # None /\ ~Done(lifeBitTask)
    IN
    /\ cpc[c] = "idle"
    /\ IF AlreadyRunning
       THEN /\ cres' = [cres EXCEPT ![c] = "start_noop"]
            /\ UNCHANGED <<lifeBitTask, taskState>>
       ELSE \E k \in TaskIds :
               /\ taskState[k] = "unborn"
               /\ \A j \in TaskIds : taskState[j] = "unborn" => k <= j
               /\ taskState' = [taskState EXCEPT ![k] = "running"]
               /\ lifeBitTask' = k
               /\ cres' = [cres EXCEPT ![c] = "start_created"]
    /\ UNCHANGED <<cpc, target, bridgeVars, offlineVars>>

\* stop_life_bit_loop up to its await: without a task it returns at once,
\* else it cancels the task and waits for it
StopBegin(c) ==
    /\ cpc[c] = "idle"
    /\ IF lifeBitTask = None
       THEN /\ cres' = [cres EXCEPT ![c] = "stop_noop"]
            /\ UNCHANGED <<taskState, cpc, target>>
       ELSE /\ taskState' = [taskState EXCEPT ![lifeBitTask] =
                                IF @ = "running" THEN "cancelling" ELSE @]
            /\ cpc' = [cpc EXCEPT ![c] = "stop_wait"]
            /\ target' = [target EXCEPT ![c] = lifeBitTask]
            /\ cres' = [cres EXCEPT ![c] = "none"]
    /\ UNCHANGED <<lifeBitTask, bridgeVars, offlineVars>>

\* the cancelled keepalive task gets its CancelledError and terminates
TaskEnds(k) ==
    /\ taskState[k] = "cancelling"
    /\ taskState' = [taskState EXCEPT ![k] = "done"]
    /\ UNCHANGED <<lifeBitTask, cpc, target, cres, bridgeVars, offlineVars>>

\* stop_life_bit_loop after its await: the awaited task has terminated (the
\* CancelledError or TimeoutError of the wait is swallowed) and the reference
\* is dropped
StopEnd(c) ==
    LET
        \* the reference stop_life_bit_loop stores after its wait
        StoppedReference(k) == None
    IN
    /\ cpc[c] = "stop_wait"
    /\ Done(target[c])
    /\ lifeBitTask' = StoppedReference(target[c])
    /\ cpc' = [cpc EXCEPT ![c] = "idle"]
    /\ target' = [target EXCEPT ![c] = None]
    /\ cres' = [cres EXCEPT ![c] = "stopped"]
    /\ UNCHANGED <<taskState, bridgeVars, offlineVars>>

LifeNext ==
    \/ \E c \in Callers : StartLifeBitLoop(c)
    \/ \E c \in Callers : StopBegin(c)
    \/ \E k \in TaskIds : TaskEnds(k)
    \/ \E c \in Callers : StopEnd(c)

LifeSpec == Init /\ [][LifeNext]_vars

\* -------------------------------------------------------- the read plan
\* REGISTER_TYPE, in the order of the keys of by_type
RegisterTypes == <<"input", "holding">>

\* catalogs of at most MaxDefs definitions over the given addresses, word
\* counts and register types
Catalogs(addresses, counts, types) ==
    LET
        \* a RegisterDefinition; its key is its position in the catalog
        Definition(k, a, c, ty) ==
            LET
                \* the data type the catalog gives a register of `count` words
                DataTypeOf(count) ==
                    IF count = 1 THEN "uint16" ELSE IF count = 2 THEN "uint32" ELSE "string"
            IN
            [key |-> k, address |-> a, count |-> c, register_type |-> ty,
             data_type |-> DataTypeOf(c)]
    IN
    UNION {{[k \in 1..n |-> Definition(k, a[k], c[k], ty[k])] :
               a \in [1..n -> addresses], c \in [1..n -> counts],
               ty \in [1..n -> types]} : n \in 0..MaxDefs}

\* the greatest element of a set of numbers
Greatest(S) == CHOOSE x \in S : \A y \in S : y <= x

\* ReadRequest(start_address, count, register_type, registers)
ReadRequest(start, end, ty, regs) ==
    [start_address |-> start, count |-> end - start, register_type |-> ty,
     registers |-> regs]

\* mutant: the definitions are not told apart by their register type
OfTypeMutant(defs, ty) == IF ty = "holding" THEN defs ELSE <<>>

\* `by_type[definition.register_type].append(definition)`
OfType(defs, ty) == SelectSeq(defs, LAMBDA d : d.register_type = ty)

RECURSIVE InsertByAddress(_, _)
\* d put behind the items whose address is not greater (the sort is stable)
InsertByAddress(sorted, d) ==
    IF sorted = <<>> THEN <<d>>
    ELSE IF Head(sorted).address <= d.address
    THEN <<Head(sorted)>> \o InsertByAddress(Tail(sorted), d)
    ELSE <<d>> \o sorted

RECURSIVE SortedByAddress(_)
\* `items.sort(key=lambda reg: reg.address)`
SortedByAddress(items) ==
    IF items = <<>> THEN <<>>
    ELSE InsertByAddress(SortedByAddress(SubSeq(items, 1, Len(items) - 1)),
                         items[Len(items)])

\* mutant: no limit on the words of one request
ExceedsLimitMutant(span) == FALSE

\* `reg_end - current_start > MAX_REGISTERS_PER_REQUEST`
ExceedsLimit(span) == span > MAX_REGISTERS_PER_REQUEST

\* mutant: the end of the request is the end of the definition added last
SpanEndMutant(current_end, reg_end) == reg_end

\* `current_end = max(current_end, reg_end)`
SpanEnd(current_end, reg_end) ==
    IF current_end >= reg_end THEN current_end ELSE reg_end

\* `requests.append(ReadRequest(...))` if a request is open
Flushed(st, ty) ==
    IF st.current_regs # <<>>
    THEN Append(st.requests,
                ReadRequest(st.current_start, st.current_end, ty, st.current_regs))
    ELSE st.requests

\* the body of `for definition in items`
SweepStep(st, d, ty) ==
    LET
        \* `reg_start >= current_end`: the definition starts behind the last word of
        \* the current request or right after it
        StartsBehind(reg_start, current_end) == reg_start >= current_end
    IN
    LET reg_start == d.address
        reg_end == d.address + d.count
    IN IF \/ st.current_regs = <<>>
          \/ StartsBehind(reg_start, st.current_end)
          \/ ExceedsLimit(reg_end - st.current_start)
       THEN [requests |-> Flushed(st, ty), current_regs |-> <<d>>,
             current_start |-> reg_start, current_end |-> reg_end]
       ELSE [st EXCEPT !.current_regs = Append(@, d),
                       !.current_end = SpanEnd(@, reg_end)]

RECURSIVE Sweep(_, _, _)
Sweep(st, items, ty) ==
    IF items = <<>> THEN st
    ELSE Sweep(SweepStep(st, Head(items), ty), Tail(items), ty)

\* the requests of one register type, the last open request included
RequestsOfType(defs, ty) ==
    LET
        \* the state of the sweep before its first definition (current_start and
        \* current_end are None exactly while current_regs is empty)
        SweepStart ==
            [requests |-> <<>>, current_regs |-> <<>>, current_start |-> 0,
             current_end |-> 0]
    IN
    Flushed(Sweep(SweepStart, SortedByAddress(OfType(defs, ty)), ty), ty)

RECURSIVE InsertRequest(_, _)
InsertRequest(sorted, r) ==
    LET
        \* the sort key (register_type, start_address) of a request
        SortsBefore(first, second) ==
            LET
                \* the order of the register types as strings ("holding" < "input")
                TypeRank(ty) == IF ty = "holding" THEN 0 ELSE 1
            IN
            \/ TypeRank(first.register_type) < TypeRank(second.register_type)
            \/ /\ first.register_type = second.register_type
               /\ first.start_address <= second.start_address
    IN
    IF sorted = <<>> THEN <<r>>
    ELSE IF SortsBefore(Head(sorted), r)
    THEN <<Head(sorted)>> \o InsertRequest(Tail(sorted), r)
    ELSE <<r>> \o sorted

RECURSIVE SortedRequests(_)
\* `requests.sort(key=lambda request: (request.register_type, request.start_address))`
SortedRequests(reqs) ==
    IF reqs = <<>> THEN <<>>
    ELSE InsertRequest(SortedRequests(SubSeq(reqs, 1, Len(reqs) - 1)),
                       reqs[Len(reqs)])

\* _build_read_plan(definitions)
BuildReadPlan(defs) ==
    SortedRequests(RequestsOfType(defs, RegisterTypes[1])
                      \o RequestsOfType(defs, RegisterTypes[2]))

\* `self._read_plan = _build_read_plan(...)`
Plan ==
    /\ stage = "catalog"
    /\ requests' = BuildReadPlan(definitions)
    /\ stage' = "planned"
    /\ UNCHANGED <<definitions, cursor, received, decoded, bridgeVars, lifeVars,
                   simVars, hostVars>>

PlanInit ==
    LET
        PlanCounts == {1, 2, MAX_REGISTERS_PER_REQUEST}
        \* addresses and word counts that put definitions apart, side by side and
        \* across each other, with spans at, below and above the maximum
        PlanAddresses == {0, 1, 2}
    IN
    /\ BridgeInit /\ LifeInit /\ SimIdle /\ HostIdle
    /\ definitions \in Catalogs(PlanAddresses, PlanCounts,
                                {RegisterTypes[1], RegisterTypes[2]})
    /\ requests = <<>>
    /\ stage = "catalog"
    /\ cursor = 0
    /\ received = <<>>
    /\ decoded = <<>>

PlanNext == Plan

PlanSpec == PlanInit /\ [][PlanNext]_vars

\* ------------------------------------------------- decoding of the blocks
\* Python values in the dict of read_all
PyNone == [kind |-> "None"]
PyInt(v) == [kind |-> "int", v |-> v]
PyStr(codes) == [kind |-> "str", v |-> codes]
\* an exception instead of a value
PyRaise(name) == [kind |-> name]

RECURSIVE ToBytes(_)
\* `byte_buffer.extend(register.to_bytes(2, "big"))` for each word
ToBytes(words) ==
    IF words = <<>> THEN <<>>
    ELSE <<Head(words) \div 256, Head(words) % 256>> \o ToBytes(Tail(words))

RECURSIVE RStrip(_, _)
\* the bytes or characters without the trailing ones that are in `drop`
RStrip(codes, drop) ==
    IF codes # <<>> /\ codes[Len(codes)] \in drop
    THEN RStrip(SubSeq(codes, 1, Len(codes) - 1), drop)
    ELSE codes

RECURSIVE LStrip(_, _)
LStrip(codes, drop) ==
    IF codes # <<>> /\ Head(codes) \in drop THEN LStrip(Tail(codes), drop)
    ELSE codes

\* _decode_register(definition, data) for a definition with scale 1
DecodeRegister(d, words) ==
    LET
        \* decode(encoding, errors="ignore") of bytes that are ASCII or else form no
        \* valid sequence: the latter are dropped
        DecodeIgnore(bytes) == SelectSeq(bytes, LAMBDA b : b < 128)
        \* ASCII characters for which str.isspace() holds
        Whitespace == (9..13) \cup (28..32)
    IN
    IF d.data_type = "string"
    THEN PyStr(LStrip(RStrip(DecodeIgnore(RStrip(ToBytes(words), {0})),
                             Whitespace), Whitespace))
    ELSE IF d.data_type = "uint16"
    THEN (IF Len(words) < 1 THEN PyRaise("IndexError") ELSE PyInt(words[1]))
    ELSE IF Len(words) < 2 THEN PyRaise("IndexError")
    ELSE PyInt(words[1] * 65536 + words[2])

\* mutant: the slice is decoded whatever its length
SliceOkMutant(register_values, count) == TRUE

\* `len(register_values) != definition.count` does not hold
SliceOk(register_values, count) == Len(register_values) = count

RECURSIVE DecodeBlock(_, _, _, _)
\* `for definition in request.registers`: the dict after the loop, or the
\* exception that ended it
DecodeBlock(d, regs, start_address, registers) ==
    LET
        \* the value stored under the key of a definition of a request that
        \* starts at start_address and was answered with `registers`
        ValueOf(definition) ==
            LET
                \* registers[offset:slice_end] (a Python slice never raises)
                Slice(values, from, to) ==
                    LET
                        Min(a, b) == IF a <= b THEN a ELSE b
                    IN
                    SubSeq(values, from + 1, Min(to, Len(values)))
            IN
            LET offset == definition.address - start_address
                slice_end == offset + definition.count
                register_values == Slice(registers, offset, slice_end)
            IN IF ~SliceOk(register_values, definition.count) THEN PyNone
               ELSE DecodeRegister(definition, register_values)
    IN
    IF regs = <<>> THEN [raised |-> FALSE, data |-> d]
    ELSE LET v == ValueOf(Head(regs))
         IN IF v.kind \notin {"None", "int", "str"}
            THEN [raised |-> TRUE, data |-> d]
            ELSE DecodeBlock(Put(d, Head(regs).key, v), Tail(regs),
                             start_address, registers)

\* the registers of a non-error response of n words that are all w
Fill(n, w) == [j \in 1..n |-> w]

\* the words devices put on the wire: "A " as two characters
WireWords == {7, 16672}

\* async_read_data: the attempt starts with an empty dict; with an empty plan
\* it returns at once
BeginReadAll ==
    /\ stage \in {"planned", "returned"}
    /\ stage' = IF requests = <<>> THEN "returned" ELSE "reading"
    /\ cursor' = 0
    /\ received' = <<>>
    /\ decoded' = <<>>
    /\ UNCHANGED <<definitions, requests, bridgeVars, lifeVars, simVars,
                   hostVars>>

\* the next request of the plan is answered by a response that is no error
\* and carries `registers`; after the last request the dict is returned
BlockRead(registers) ==
    LET
        \* lengths of the responses to a request of `count` words
        ResponseLengths(count) == {0, count - 1, count}
    IN
    /\ stage = "reading"
    /\ LET request == requests[cursor + 1]
           out == DecodeBlock(decoded, request.registers,
                              request.start_address, registers)
       IN /\ registers \in {Fill(n, w) : n \in ResponseLengths(request.count),
                                        w \in WireWords}
          /\ decoded' = out.data
          /\ stage' = IF out.raised THEN "raised"
                      ELSE IF cursor + 1 = Len(requests) THEN "returned"
                      ELSE "reading"
    /\ cursor' = cursor + 1
    /\ received' = Append(received, registers)
    /\ UNCHANGED <<definitions, requests, bridgeVars, lifeVars, simVars,
                   hostVars>>

\* the bridge of a catalog of holding registers after __init__
ReadInit ==
    LET
        ReadCounts == {1, 2, 3}
        ReadAddresses == {0, 1, 2}
    IN
    /\ BridgeInit /\ LifeInit /\ SimIdle /\ HostIdle
    /\ definitions \in Catalogs(ReadAddresses, ReadCounts, {RegisterTypes[2]})
    /\ requests = BuildReadPlan(definitions)
    /\ stage = "planned"
    /\ cursor = 0
    /\ received = <<>>
    /\ decoded = <<>>

ReadNext ==
    \/ BeginReadAll
    \/ \E n \in 0..(MaxDefs + 3), w \in WireWords : BlockRead(Fill(n, w))

ReadSpec == ReadInit /\ [][ReadNext]_vars

\* ------------------------------------------------- the virtual wallbox
SESSION_COMMAND_START_VALUE == 1
SESSION_COMMAND_STOP_VALUE == 2

\* a RegisterDefinition of the catalog; its scale is 1 / scale_den
Register(key, address, count, ty, dt, den) ==
    [key |-> key, address |-> address, count |-> count, register_type |-> ty,
     data_type |-> dt, scale_den |-> den]

\* SENSOR_REGISTERS, NUMBER_REGISTERS, BUTTON_REGISTERS, CONTROL_REGISTERS
SimCatalog ==
    <<Register("charge_point_state", 1000, 1, "holding", "uint16", 1),
      Register("charging_state", 1001, 1, "holding", "uint16", 1),
      Register("equipment_state", 1002, 1, "holding", "uint16", 1),
      Register("cable_state", 1004, 1, "holding", "uint16", 1),
      Register("fault_code", 1006, 1, "holding", "uint16", 1),
      Register("current_l1_a", 1008, 1, "holding", "uint16", 1000),
      Register("current_l2_a", 1010, 1, "holding", "uint16", 1000),
      Register("current_l3_a", 1012, 1, "holding", "uint16", 1000),
      Register("active_power_total_w", 1020, 2, "holding", "uint32", 1),
      Register("active_power_l1_w", 1024, 2, "holding", "uint32", 1),
      Register("active_power_l2_w", 1028, 2, "holding", "uint32", 1),
      Register("active_power_l3_w", 1032, 2, "holding", "uint32", 1),
      Register("energy_total_kwh", 1036, 2, "holding", "uint32", 1000),
      Register("session_max_current_a", 1100, 1, "holding", "uint16", 1),
      Register("evse_min_current_a", 1102, 1, "holding", "uint16", 1),
      Register("evse_max_current_a", 1104, 1, "holding", "uint16", 1),
      Register("cable_max_current_a", 1106, 1, "holding", "uint16", 1),
      Register("ev_max_current_a", 1108, 1, "holding", "uint16", 1),
      Register("charged_energy_wh", 1502, 1, "holding", "uint16", 1),
      Register("session_start_time", 1504, 2, "holding", "uint32", 1),
      Register("session_duration_s", 1508, 2, "holding", "uint32", 1),
      Register("session_end_time", 1512, 2, "holding", "uint32", 1),
      Register("session_user_id", 1600, 10, "holding", "string", 1),
      Register("smart_vehicle_detected", 1620, 2, "holding", "uint32", 1),
      Register("failsafe_current_a", 2000, 1, "holding", "uint16", 1),
      Register("failsafe_timeout_s", 2002, 1, "holding", "uint16", 1),
      Register("set_current_a", 5004, 1, "holding", "uint16", 1),
      Register("send_keepalive", 6000, 1, "holding", "uint16", 1),
      Register("start_session", 5006, 1, "holding", "uint16", 1),
      Register("stop_session", 5006, 1, "holding", "uint16", 1),
      Register("session_command", 5006, 1, "holding", "uint16", 1)>>

\* the values of build_default_scenario, in the order of the dict
DefaultValues ==
    LET
        \* a float given in thousandths
        PyMilli(m) == [kind |-> "float", milli |-> m]
    IN
    <<<<"serial_number", PyStr(<<83, 73, 77, 45, 87, 66, 45, 48, 48, 48, 49>>)>>,
      <<"charge_point_id", PyStr(<<83, 73, 77, 85, 76, 65, 84, 79, 82>>)>>,
      <<"charge_point_brand", PyStr(<<87, 101, 98, 97, 115, 116, 111>>)>>,
      <<"charge_point_model", PyStr(<<78, 101, 120, 116>>)>>,
      <<"firmware_version", PyStr(<<49, 46, 48, 46, 48>>)>>,
      <<"charge_point_state", PyInt(0)>>,
      <<"charging_state", PyInt(0)>>,
      <<"equipment_state", PyInt(1)>>,
      <<"cable_state", PyInt(2)>>,
      <<"fault_code", PyInt(0)>>,
      <<"current_l1_a", PyInt(0)>>,
      <<"current_l2_a", PyInt(0)>>,
      <<"current_l3_a", PyInt(0)>>,
      <<"voltage_l1_v", PyInt(230)>>,
      <<"voltage_l2_v", PyInt(230)>>,
      <<"voltage_l3_v", PyInt(230)>>,
      <<"active_power_total_w", PyInt(0)>>,
      <<"active_power_l1_w", PyInt(0)>>,
      <<"active_power_l2_w", PyInt(0)>>,
      <<"active_power_l3_w", PyInt(0)>>,
      <<"energy_total_kwh", PyMilli(1234567)>>,
      <<"session_max_current_a", PyInt(32)>>,
      <<"evse_min_current_a", PyInt(6)>>,
      <<"evse_max_current_a", PyInt(32)>>,
      <<"cable_max_current_a", PyInt(32)>>,
      <<"ev_max_current_a", PyInt(32)>>,
      <<"charged_energy_wh", PyInt(0)>>,
      <<"session_start_time", PyInt(0)>>,
      <<"session_duration_s", PyInt(0)>>,
      <<"session_end_time", PyInt(0)>>,
      <<"rated_power_w", PyInt(22000)>>,
      <<"phase_configuration", PyInt(1)>>,
      <<"charge_power_w", PyInt(0)>>,
      <<"failsafe_current_a", PyInt(16)>>,
      <<"failsafe_timeout_s", PyInt(60)>>>>

ByKey(key) ==
    SimCatalog[Greatest({i \in DOMAIN SimCatalog : SimCatalog[i].key = key})]

\* mutant: every raw value is taken as it is
InRangeMutant(d, raw) == TRUE

\* `0 <= raw <= 0xFFFF` of a uint16 and `0 <= raw <= 0xFFFFFFFF` of a uint32
\* definition
InRange(d, raw) ==
    /\ 0 <= raw
    /\ (IF d.data_type = "uint16" THEN raw ELSE raw \div 65536) <= 65535

\* mutant: the least significant word comes first
Words32Mutant(raw) == <<raw % 65536, (raw \div 65536) % 65536>>

\* `[(raw >> 16) & 0xFFFF, raw & 0xFFFF]`
Words32(raw) == <<(raw \div 65536) % 65536, raw % 65536>>

\* _encode_value(definition, value) for numbers given to numeric registers and
\* ASCII text given to string registers: the words, or the exception raised
EncodeValue(d, value) ==
    LET
        \* data.ljust(byte_length, b"\x00")
        Padded(bytes, byte_length) ==
            [j \in 1..byte_length |-> IF j <= Len(bytes) THEN bytes[j] ELSE 0]
        \* round(x / y) of Python for y > 0: ties go to the even neighbour
        RoundDiv(x, y) ==
            LET n == IF x < 0 THEN 0 - x ELSE x
                q == n \div y
                r == n % y
                up == IF 2 * r > y \/ (2 * r = y /\ q % 2 = 1) THEN q + 1 ELSE q
            IN IF x < 0 THEN 0 - up ELSE up
        \* `int(round(numeric / scale)) if scale != 1 else int(round(numeric))`
        \* for value = float(n / 1000) resp. an int; scale is 1 / scale_den
        raw_value == IF value.kind = "float"
                     THEN RoundDiv(value.milli * d.scale_den, 1000)
                     ELSE value.v * d.scale_den
    IN
    IF value.kind = "None"
    THEN [raised |-> "none", words |-> [j \in 1..d.count |-> 0]]
    ELSE IF d.data_type = "string"
    THEN IF Len(value.v) > d.count * 2
         THEN [raised |-> "ValueError", words |-> <<>>]
         ELSE [raised |-> "none",
               words |-> [j \in 1..d.count |->
                            Padded(value.v, d.count * 2)[2 * j - 1] * 256
                               + Padded(value.v, d.count * 2)[2 * j]]]
    ELSE LET raw == raw_value
         IN IF ~InRange(d, raw)
            THEN [raised |-> "ValueError", words |-> <<>>]
            ELSE [raised |-> "none",
                  words |-> IF d.data_type = "uint16" THEN <<raw>>
                            ELSE Words32(raw)]

\* the two stores of a VirtualWallboxState
Stores(input, holding) == [input |-> input, holding |-> holding]

\* `target[definition.address + offset] = raw` for the words of one register
StoreWords(st, ty, address, words) ==
    LET old == st[ty]
        new == [a \in (DOMAIN old) \cup {address + j - 1 : j \in DOMAIN words} |->
                   IF a \in {address + j - 1 : j \in DOMAIN words}
                   THEN words[a - address + 1] ELSE old[a]]
    IN [st EXCEPT ![ty] = new]

\* _apply_value(key, value): the stores after it and the exception raised
ApplyValue(st, key, value) ==
    LET
        \* self._definitions_by_key
        HasKey == \E i \in DOMAIN SimCatalog : SimCatalog[i].key = key
    IN
    IF ~HasKey THEN [stores |-> st, raised |-> "KeyError"]
    ELSE LET d == ByKey(key)
             enc == EncodeValue(d, value)
         IN IF enc.raised # "none" THEN [stores |-> st, raised |-> enc.raised]
            ELSE [stores |-> StoreWords(st, d.register_type, d.address, enc.words),
                  raised |-> "none"]

RECURSIVE ApplyValues(_, _)
\* apply_values(updates): the entries are applied in the order of the dict, and
\* an entry that raises ends the loop
ApplyValues(st, updates) ==
    IF updates = <<>> THEN [stores |-> st, raised |-> "none"]
    ELSE LET r == ApplyValue(st, Head(updates)[1], Head(updates)[2])
         IN IF r.raised # "none" THEN r ELSE ApplyValues(r.stores, Tail(updates))

\* mutant: reset() only clears the stores
ResetStoresMutant == Stores(<<>>, <<>>)

\* reset(): both stores cleared, then every word of every definition set to 0
ResetStores ==
    LET
        \* the word addresses of the definitions of one register type
        WordsOf(ty) ==
            UNION {{SimCatalog[i].address + o : o \in 0..(SimCatalog[i].count - 1)} :
                      i \in {k \in DOMAIN SimCatalog : SimCatalog[k].register_type = ty}}
    IN
    Stores([a \in WordsOf("input") |-> 0], [a \in WordsOf("holding") |-> 0])

\* mutant: a read stops at the first address that holds no word
ReadBlockMutant(st, ty, start_address, count) ==
    LET store == IF ty = "input" THEN st.input ELSE st.holding
        held == {n \in 0..count : \A j \in 1..n : start_address + j - 1 \in DOMAIN store}
        n == CHOOSE x \in held : \A y \in held : y <= x
    IN [j \in 1..n |-> store[start_address + j - 1]]

\* read_block(register_type, start_address, count): every register type other
\* than "input" reads the holding store; `store.get(address, 0)`
ReadBlock(st, ty, start_address, count) ==
    LET store == IF ty = "input" THEN st.input ELSE st.holding
    IN [j \in 1..count |->
           IF start_address + j - 1 \in DOMAIN store THEN store[start_address + j - 1]
           ELSE 0]

\* VirtualWallboxState.write_register(address, value)
WriteRegister(st, address, value) ==
    LET
        \* self._definitions_by_address: the definition listed last wins
        AtAddress(ty, a) ==
            {i \in DOMAIN SimCatalog :
                SimCatalog[i].register_type = ty /\ SimCatalog[i].address = a}
        ByAddress(ty, a) == SimCatalog[Greatest(AtAddress(ty, a))]
        HasAddress(ty, a) == AtAddress(ty, a) # {}
        \* write_actions["session_command"][SESSION_COMMAND_STOP_VALUE]
        StopUpdates ==
            <<<<"charging_state", PyInt(0)>>,
              <<"charge_point_state", PyInt(0)>>,
              <<"active_power_total_w", PyInt(0)>>,
              <<"active_power_l1_w", PyInt(0)>>,
              <<"active_power_l2_w", PyInt(0)>>,
              <<"active_power_l3_w", PyInt(0)>>,
              <<"charge_power_w", PyInt(0)>>>>
        \* write_actions["session_command"][SESSION_COMMAND_START_VALUE]
        StartUpdates ==
            <<<<"charging_state", PyInt(1)>>,
              <<"charge_point_state", PyInt(2)>>,
              <<"active_power_total_w", PyInt(7400)>>,
              <<"active_power_l1_w", PyInt(2466)>>,
              <<"active_power_l2_w", PyInt(2466)>>,
              <<"active_power_l3_w", PyInt(2466)>>,
              <<"charge_power_w", PyInt(7400)>>>>
        \* actions.get(stored_value): the updates, empty if there are none
        ActionUpdates(stored_value) ==
            IF stored_value = SESSION_COMMAND_START_VALUE THEN StartUpdates
            ELSE IF stored_value = SESSION_COMMAND_STOP_VALUE THEN StopUpdates
            ELSE <<>>
        \* self._write_actions.get(key): None if the key has no actions
        HasActions(key) == key = "session_command"
    IN
    LET stored_value == value % 65536
        written == StoreWords(st, "holding", address, <<stored_value>>)
    IN IF ~HasAddress("holding", address) THEN [stores |-> written, raised |-> "none"]
       ELSE IF ~HasActions(ByAddress("holding", address).key)
       THEN [stores |-> written, raised |-> "none"]
       ELSE ApplyValues(written, ActionUpdates(stored_value))

\* what the bridge decodes from a read of the register `key`
ReadsAs(key) ==
    LET d == ByKey(key)
    IN DecodeRegister(d, ReadBlock(Stores(inputRegisters, holdingRegisters),
                                   d.register_type, d.address, d.count))

\* Scenario.create_state(): VirtualWallboxState.__init__ resets the stores and
\* applies the initial values; if that raises, no state object exists
CreateState ==
    LET
        \* Scenario.values
        ScenarioValues(name) == IF name = "default" THEN DefaultValues ELSE <<>>
    IN
    /\ simState = "none"
    /\ LET values == ScenarioValues(scenario)
           r == IF values # <<>> THEN ApplyValues(ResetStores, values)
                ELSE [stores |-> ResetStores, raised |-> "none"]
       IN /\ simRaised' = r.raised
          /\ simState' = IF r.raised = "none" THEN "ready" ELSE "failed"
          /\ inputRegisters' = IF r.raised = "none" THEN r.stores.input ELSE <<>>
          /\ holdingRegisters' = IF r.raised = "none" THEN r.stores.holding ELSE <<>>
          /\ commandsOnly' = (r.raised = "none")
    /\ lastCall' = "create"
    /\ UNCHANGED <<scenario, served, lastCommand, bridgeVars, lifeVars, planVars,
                   hostVars>>

\* the simulator takes the stores and the exception of a call
SimResult(r) ==
    /\ inputRegisters' = r.stores.input
    /\ holdingRegisters' = r.stores.holding
    /\ simRaised' = r.raised

\* FakeAsyncModbusTcpClient.write_register: state.write_register(address, value)
SimWrite(address, value) ==
    LET
        \* the start and stop values
        Commands == {SESSION_COMMAND_START_VALUE, SESSION_COMMAND_STOP_VALUE}
    IN
    /\ simState = "ready"
    /\ SimResult(WriteRegister(Stores(inputRegisters, holdingRegisters),
                               address, value))
    /\ lastCommand' = IF address = 5006 /\ value \in Commands THEN value
                      ELSE lastCommand
    /\ commandsOnly' = (commandsOnly /\ address = 5006 /\ value \in Commands)
    /\ lastCall' = "write"
    /\ UNCHANGED <<scenario, served, simState, bridgeVars, lifeVars, planVars,
                   hostVars>>

\* VirtualWallboxState.reset()
SimReset ==
    /\ simState = "ready"
    /\ SimResult([stores |-> ResetStores, raised |-> "none"])
    /\ commandsOnly' = FALSE
    /\ lastCall' = "reset"
    /\ UNCHANGED <<scenario, simState, lastCommand, served, bridgeVars, lifeVars,
                   planVars, hostVars>>

\* VirtualWallboxState.apply_values({key: value})
SimApply(key, value) ==
    /\ simState = "ready"
    /\ SimResult(ApplyValues(Stores(inputRegisters, holdingRegisters),
                             <<<<key, value>>>>))
    /\ commandsOnly' = FALSE
    /\ lastCall' = "apply"
    /\ UNCHANGED <<scenario, simState, lastCommand, served, bridgeVars, lifeVars,
                   planVars, hostVars>>

SimInit ==
    LET
        \* the scenarios a wallbox is created from: the default scenario, and the
        \* write actions of the default scenario without initial values
        Scenarios == {"default", "blank"}
    IN
    /\ BridgeInit /\ LifeInit /\ PlanIdle /\ HostIdle
    /\ scenario \in Scenarios
    /\ simState = "none"
    /\ inputRegisters = <<>>
    /\ holdingRegisters = <<>>
    /\ simRaised = "none"
    /\ lastCommand = None
    /\ commandsOnly = FALSE
    /\ lastCall = "none"
    /\ served = NotServed

\* the entries of direct apply_values calls: values at and beyond the limits
\* of a uint16 and a uint32 register, an unknown key, a text of odd length
\* with an inner space and a text longer than its register
ApplySet ==
    LET A == 65
        B == 66
        sp == 32
        long == [j \in 1..21 |-> A]
    IN {<<"charging_state", PyInt(1)>>, <<"charging_state", PyInt(65535)>>,
        <<"charging_state", PyInt(65536)>>, <<"charging_state", PyInt(0 - 1)>>,
        <<"charging_state", PyNone>>,
        <<"active_power_total_w", PyInt(2147385343)>>,
        <<"active_power_total_w", PyInt(0 - 1)>>,
        <<"charge_power_w", PyInt(1)>>,
        <<"session_user_id", PyStr(<<A, sp, B>>)>>,
        <<"session_user_id", PyStr(long)>>}

SimNext ==
    LET
        SimWriteAddresses == {1001, 1003, 5006}
        \* values written to holding registers
        SimWriteValues ==
            {0, SESSION_COMMAND_START_VALUE, SESSION_COMMAND_STOP_VALUE, 65537}
    IN
    \/ CreateState
    \/ \E a \in SimWriteAddresses, v \in SimWriteValues : SimWrite(a, v)
    \/ SimReset
    \/ \E e \in ApplySet : SimApply(e[1], e[2])

SimSpec == SimInit /\ [][SimNext]_vars

\* ---------------------------------------- the server of the virtual wallbox
\* VirtualWallboxDataBlock._normalize_address
NormalizeAddress(zero_mode, address) ==
    IF zero_mode THEN address ELSE address + 1

\* VirtualWallboxDataBlock.getValues of the block of register type ty: a word
\* that reads 0 is taken from the other store at the same address if that one
\* is not 0
BlockGetValues(st, zero_mode, ty, address, count) ==
    LET start == NormalizeAddress(zero_mode, address)
        values == ReadBlock(st, ty, start, count)
        other == IF ty = "input" THEN "holding" ELSE "input"
    IN [idx \in 1..count |->
           IF values[idx] = 0 THEN ReadBlock(st, other, start + idx - 1, 1)[1]
           ELSE values[idx]]

\* VirtualWallboxDataBlock.setValues of the block of register type ty: the
\* stores after it and the exception raised; a write_register that raises ends
\* the loop
BlockSetValues(st, zero_mode, ty, address, values) ==
    LET start == NormalizeAddress(zero_mode, address)
        RECURSIVE WriteAll(_, _, _)
        WriteAll(stores, at, rest) ==
            IF rest = <<>> THEN [stores |-> stores, raised |-> "none"]
            ELSE LET r == WriteRegister(stores, at, Head(rest))
                 IN IF r.raised # "none" THEN r
                    ELSE WriteAll(r.stores, at + 1, Tail(rest))
    IN IF ty # "holding" THEN [stores |-> st, raised |-> "none"]
       ELSE WriteAll(st, start, values)

\* mutant: the device context adds the offset of the address mode as well
DeviceGetValuesMutant(st, zero_mode, ty, address, count) ==
    BlockGetValues(st, zero_mode, ty, NormalizeAddress(zero_mode, address), count)

\* VirtualWallboxDeviceContext.getValues: the block of the function code is
\* asked with the address as received
DeviceGetValues(st, zero_mode, ty, address, count) ==
    BlockGetValues(st, zero_mode, ty, address, count)

\* VirtualWallboxDeviceContext.setValues
DeviceSetValues(st, zero_mode, ty, address, values) ==
    BlockSetValues(st, zero_mode, ty, address, values)

\* a read request on a data block ("block") or through the device context
\* ("context") of a server built with the given zero_mode
ServerRead(path, zero_mode, ty, address, count) ==
    /\ simState = "ready"
    /\ LET st == Stores(inputRegisters, holdingRegisters)
           values == IF path = "block"
                     THEN BlockGetValues(st, zero_mode, ty, address, count)
                     ELSE DeviceGetValues(st, zero_mode, ty, address, count)
       IN served' = [call |-> "getValues", path |-> path, zero_mode |-> zero_mode,
                     register_type |-> ty, address |-> address, values |-> values]
    /\ UNCHANGED <<scenario, simState, inputRegisters, holdingRegisters, simRaised,
                   lastCommand, commandsOnly, lastCall, bridgeVars, lifeVars,
                   planVars, hostVars>>

\* a write request on a data block or through the device context
ServerWrite(path, zero_mode, ty, address, values) ==
    /\ simState = "ready"
    /\ LET st == Stores(inputRegisters, holdingRegisters)
       IN SimResult(IF path = "block"
                    THEN BlockSetValues(st, zero_mode, ty, address, values)
                    ELSE DeviceSetValues(st, zero_mode, ty, address, values))
    /\ served' = [call |-> "setValues", path |-> path, zero_mode |-> zero_mode,
                  register_type |-> ty, address |-> address, values |-> values]
    /\ commandsOnly' = FALSE
    /\ lastCall' = "write"
    /\ UNCHANGED <<scenario, simState, lastCommand, bridgeVars, lifeVars, planVars,
                   hostVars>>

\* the server is built over a wallbox created without initial values
ServerInit == SimInit /\ scenario = "blank"

ServerNext ==
    LET
        ServerAddresses == {1000, 5005}
        \* the requests made on the server
        ServerPaths == {"block", "context"}
    IN
    \/ CreateState
    \/ \E p \in ServerPaths, z \in BOOLEAN, ty \in {"input", "holding"},
          a \in ServerAddresses, c \in 1..2 : ServerRead(p, z, ty, a, c)
    \/ \E p \in ServerPaths, z \in BOOLEAN, ty \in {"input", "holding"},
          a \in ServerAddresses, v \in {<<1>>, <<2, 1>>} :
          ServerWrite(p, z, ty, a, v)

ServerSpec == ServerInit /\ [][ServerNext]_vars

\* ------------------------------------------------------ the coordinator
FAILURE_NOTIFICATION_THRESHOLD == 3

\* mutant: the notification is created from the first failure on
NotifiesMutant(consecutive_failures) == consecutive_failures >= 1

\* `self.consecutive_failures >= FAILURE_NOTIFICATION_THRESHOLD`
Notifies(consecutive_failures) ==
    consecutive_failures >= FAILURE_NOTIFICATION_THRESHOLD

\* mutant: connection_lost is fired on every failed update
FiresLostMutant(connection_online) == TRUE

\* `if self._connection_online`
FiresLost(connection_online) == connection_online

\* _async_update_data with the outcome of `await self._bridge.async_read_data()`:
\* "ok" (the else branch), "WebastoModbusError" (the except branch), or
\* "other", an exception that no clause catches and that leaves the fields
\* as they are
AsyncUpdateData(outcome) ==
    /\ observed.updates < MaxUpdates
    /\ LET c == coordinator
           failures == c.consecutive_failures + 1
           lost == FiresLost(c.connection_online)
           restored == ~c.connection_online
           fired == IF outcome = "WebastoModbusError" /\ lost THEN "connection_lost"
                    ELSE IF outcome = "ok" /\ restored THEN "connection_restored"
                    ELSE "none"
           created == outcome = "WebastoModbusError" /\ Notifies(failures)
       IN /\ coordinator' =
                IF outcome = "WebastoModbusError"
                THEN [consecutive_failures |-> failures,
                      connection_online |-> IF lost THEN FALSE
                                            ELSE c.connection_online,
                      notification |-> c.notification \/ created]
                ELSE IF outcome = "ok"
                THEN [consecutive_failures |-> 0,
                      connection_online |-> IF restored THEN TRUE
                                            ELSE c.connection_online,
                      notification |-> FALSE]
                ELSE c
          /\ observed' =
                [outcome |-> outcome, created |-> created,
                 dismissed |-> outcome = "ok", fired |-> fired,
                 failedSince |-> IF outcome = "ok" THEN 0
                                 ELSE IF outcome = "WebastoModbusError"
                                 THEN observed.failedSince + 1
                                 ELSE observed.failedSince,
                 lastHandled |-> IF outcome = "other" THEN observed.lastHandled
                                 ELSE outcome,
                 lastFired |-> IF fired = "none" THEN observed.lastFired ELSE fired,
                 updates |-> observed.updates + 1]
    /\ UNCHANGED <<bridgeVars, lifeVars, planVars, simVars, service, loop, hass>>

CoordNext ==
    \E outcome \in {"ok", "WebastoModbusError", "other"} : AsyncUpdateData(outcome)

CoordSpec == Init /\ [][CoordNext]_vars

\* ------------------------------------------------- the service handlers
\* the writes of a service handler in their order, each with the effect that
\* follows it: the register-written signal, the keepalive trigger, or none
ServiceWrites(handler, with_timeout) ==
    LET write(key, effect) == [key |-> key, effect |-> effect]
    IN IF handler = "set_current" THEN <<write("set_current_a", "signal")>>
       ELSE IF handler = "set_failsafe"
       THEN <<write("failsafe_current_a", "signal")>>
               \o (IF with_timeout THEN <<write("failsafe_timeout_s", "signal")>>
                   ELSE <<>>)
       ELSE IF handler = "send_keepalive" THEN <<write("send_keepalive", "trigger")>>
       ELSE <<write("session_command", "none")>>

\* mutant: the handler goes on whatever the write did
ProceedsMutant(outcome) == TRUE

\* the handler goes on behind `await runtime.bridge.async_write_register(...)`
\* only if the call returned
Proceeds(outcome) == outcome = "ok"

\* a service handler is called and reaches its first write
CallService(handler, with_timeout) ==
    /\ service.todo = <<>>
    /\ service' = [handler |-> handler,
                   todo |-> ServiceWrites(handler, with_timeout),
                   raised |-> "none", log |-> <<>>]
    /\ UNCHANGED <<bridgeVars, lifeVars, planVars, simVars, coordinator, observed,
                   loop, hass>>

\* the write the handler waits for ends: "ok", "WebastoModbusError" (raised
\* as HomeAssistantError) or "other", an exception the handler does not catch;
\* behind the last write the handler requests the coordinator refresh
WriteReturns(outcome) ==
    /\ service.todo # <<>>
    /\ LET w == Head(service.todo)
           rest == Tail(service.todo)
           after == IF w.effect = "none" THEN <<>> ELSE <<<<w.effect, w.key>>>>
           end == IF rest = <<>> THEN <<<<"refresh", "coordinator">>>> ELSE <<>>
       IN service' =
             IF Proceeds(outcome)
             THEN [service EXCEPT !.todo = rest,
                                  !.log = @ \o <<<<outcome, w.key>>>> \o after \o end]
             ELSE [service EXCEPT !.todo = <<>>,
                                  !.raised = IF outcome = "WebastoModbusError"
                                             THEN "HomeAssistantError" ELSE outcome,
                                  !.log = @ \o <<<<outcome, w.key>>>>]
    /\ UNCHANGED <<bridgeVars, lifeVars, planVars, simVars, coordinator, observed,
                   loop, hass>>

ServiceNext ==
    \/ \E h \in {"set_current", "set_failsafe", "send_keepalive", "start_session",
                 "stop_session"}, t \in BOOLEAN : CallService(h, t)
    \/ \E outcome \in {"ok", "WebastoModbusError", "other"} : WriteReturns(outcome)
    \/ CoordNext

ServiceSpec == Init /\ [][ServiceNext]_vars

\* ------------------------------------------- the keepalive loop and its time
\* _life_bit_loop with each awaited bridge call as one step and the clock in
\* seconds. A call ends "ok", with an exception ("Exception") or with the
\* cancellation of the task ("CancelledError").

\* top of the cycle and the read of the timeout register: poll_timeout = 60,
\* then `val = await self.async_read_register(timeout_reg)`; a numeric value
\* replaces the default, an exception is ignored
ReadTimeoutEnds(outcome, val) ==
    /\ loop.at = "read_timeout"
    /\ loop' = IF outcome = "ok"
               THEN [loop EXCEPT !.at = "write",
                                 !.poll_timeout = IF val.kind = "int" THEN val.v ELSE 60,
                                 !.last_known = IF val.kind = "int" THEN <<val.v>> ELSE @,
                                 !.read_failed = FALSE, !.waited = 0]
               ELSE IF InnerCatches(outcome)
               THEN [loop EXCEPT !.at = "write", !.poll_timeout = 60,
                                 !.read_failed = TRUE, !.waited = 0]
               ELSE [loop EXCEPT !.at = "cancelled"]
    /\ UNCHANGED <<bridgeVars, lifeVars, planVars, simVars, coordinator, observed,
                   service, hass>>

\* `await self.async_write_register(life_bit_reg, 1)`, then start_time is
\* taken and the condition of the poll loop is evaluated for the first time
WriteLifeBitEnds(outcome) ==
    /\ loop.at = "write"
    /\ loop' = IF outcome = "ok"
               THEN [loop EXCEPT !.at = IF 0 < loop.poll_timeout THEN "poll"
                                        ELSE "read_timeout",
                                 !.ended = IF 0 < loop.poll_timeout THEN "none"
                                           ELSE "elapsed",
                                 !.waited = 0]
               ELSE IF LoopCatches(outcome) THEN [loop EXCEPT !.at = "backoff"]
               ELSE [loop EXCEPT !.at = "cancelled"]
    /\ UNCHANGED <<bridgeVars, lifeVars, planVars, simVars, coordinator, observed,
                   service, hass>>

\* mutant: the loop goes on polling after it has read 0
PollEndsMutant(outcome, val, took) ==
    /\ loop.at = "poll"
    /\ loop' = IF outcome = "ok"
               THEN [loop EXCEPT !.at = "sleep", !.waited = @ + took]
               ELSE IF LoopCatches(outcome) THEN [loop EXCEPT !.at = "backoff"]
               ELSE [loop EXCEPT !.at = "cancelled"]
    /\ UNCHANGED <<bridgeVars, lifeVars, planVars, simVars, coordinator, observed,
                   service, hass>>

\* `val = await self.async_read_register(life_bit_reg)` took `took` seconds:
\* 0 ends the cycle, any other value leads to the sleep of one second
PollEnds(outcome, val, took) ==
    /\ loop.at = "poll"
    /\ loop' = IF outcome = "ok"
               THEN [loop EXCEPT !.at = IF val = 0 THEN "read_timeout" ELSE "sleep",
                                 !.ended = IF val = 0 THEN "cleared" ELSE @,
                                 !.waited = @ + took]
               ELSE IF LoopCatches(outcome) THEN [loop EXCEPT !.at = "backoff"]
               ELSE [loop EXCEPT !.at = "cancelled"]
    /\ UNCHANGED <<bridgeVars, lifeVars, planVars, simVars, coordinator, observed,
                   service, hass>>

\* `await asyncio.sleep(1)` of the poll loop, followed by the condition of
\* the poll loop, or `await asyncio.sleep(5)` of the error handler, followed
\* by the next cycle; a cancellation ends the task
SleepEnds(outcome) ==
    /\ loop.at \in {"sleep", "backoff"}
    /\ loop' = IF outcome # "ok" THEN [loop EXCEPT !.at = "cancelled"]
               ELSE IF loop.at = "backoff" THEN [loop EXCEPT !.at = "read_timeout"]
               ELSE [loop EXCEPT !.at = IF loop.waited + 1 < loop.poll_timeout
                                        THEN "poll" ELSE "read_timeout",
                                 !.ended = IF loop.waited + 1 < loop.poll_timeout
                                           THEN @ ELSE "elapsed",
                                 !.waited = @ + 1]
    /\ UNCHANGED <<bridgeVars, lifeVars, planVars, simVars, coordinator, observed,
                   service, hass>>

LoopNext ==
    LET outcomes == {"ok", "Exception", "CancelledError"}
    IN \/ \E outcome \in outcomes, val \in {PyNone, PyInt(0), PyInt(2)} :
             ReadTimeoutEnds(outcome, val)
       \/ \E outcome \in outcomes : WriteLifeBitEnds(outcome)
       \/ \E outcome \in outcomes, val \in {0, 1}, took \in {0, 1} :
             PollEnds(outcome, val, took)
       \/ \E outcome \in {"ok", "CancelledError"} : SleepEnds(outcome)

LoopSpec == Init /\ [][LoopNext]_vars

\* ------------------------------------------ setup and unload of entries
\* async_setup_entry of `entry`: hass.data[DOMAIN] is created if missing and
\* marked `_integration_path_logged`; if the connection attempts or the first
\* refresh fail, ConfigEntryNotReady leaves it at that; else the runtime data
\* is stored under the entry id and _register_services registers the services
\* unless `_services_registered` is set, and sets it
SetupEntry(entry, ready) ==
    /\ entry \notin hass.loaded \cup hass.failed
    /\ LET logged == hass.keys \cup {"_integration_path_logged"}
       IN hass' = IF ~ready
                  THEN [hass EXCEPT !.present = TRUE, !.keys = logged,
                                    !.last = <<"setup", entry, FALSE>>]
                  ELSE [hass EXCEPT !.present = TRUE,
                                    !.keys = logged \cup {entry, "_services_registered"},
                                    !.services =
                                        IF "_services_registered" \in hass.keys
                                        THEN @ ELSE TRUE,
                                    !.loaded = @ \cup {entry},
                                    !.last = <<"setup", entry, TRUE>>]
    /\ UNCHANGED <<bridgeVars, lifeVars, planVars, simVars, coordinator, observed,
                   service, loop>>

\* async_unload_entry of `entry`: the runtime data is popped, and
\* `if unload_ok and not data:` removes the services and hass.data[DOMAIN]
UnloadEntry(entry, unload_ok) ==
    /\ entry \in hass.loaded
    /\ LET remaining == hass.keys \ {entry}
       IN hass' = [hass EXCEPT
                      !.keys = IF unload_ok /\ remaining = {} THEN {} ELSE remaining,
                      !.present = IF unload_ok /\ remaining = {} THEN FALSE ELSE @,
                      !.services = IF unload_ok /\ remaining = {} THEN FALSE ELSE @,
                      !.loaded = @ \ {entry},
                      !.failed = IF unload_ok THEN @ ELSE @ \cup {entry},
                      !.last = <<"unload", entry, unload_ok>>]
    /\ UNCHANGED <<bridgeVars, lifeVars, planVars, simVars, coordinator, observed,
                   service, loop>>

EntryNext ==
    LET Entries == {"entry1", "entry2", "entry3"}
    IN \/ \E entry \in Entries, ready \in BOOLEAN : SetupEntry(entry, ready)
       \/ \E entry \in Entries, unload_ok \in BOOLEAN : UnloadEntry(entry, unload_ok)

EntrySpec == Init /\ [][EntryNext]_vars

\* ================================================================= claims
Range(f) == {f[i] : i \in DOMAIN f}

\* C1: under any interleaving of the keepalive loop and foreground calls at
\* most one Modbus request is in flight, and the task whose request is in
\* flight is the task that holds the bridge lock.
C1_OneRequestInFlight ==
    /\ Cardinality({t \in Tasks : pc[t] = "inflight"}) <= 1
    /\ \A t \in Tasks : pc[t] = "inflight" => lockOwner = t

\* a request of the keepalive task is in flight while a foreground call
\* waits for the lock
C1_Witness ==
    /\ pc["ka"] = "inflight" /\ lockOwner = "ka"
    /\ pc["fg"] = "acquire" /\ op["fg"] = "read_all"

\* C2: a call whose attempts all fail with WebastoModbusError makes exactly
\* MAX_RETRY_ATTEMPTS attempts and raises the error of the last one; no
\* attempt and no backoff follows the final attempt.
C2_RetryBudget ==
    \A t \in Tasks :
        /\ attempt[t] <= MAX_RETRY_ATTEMPTS
        /\ pc[t] = "backoff" => attempt[t] < MAX_RETRY_ATTEMPTS
        /\ (result[t].op \in RetryOps /\ result[t].kind = "WebastoModbusError")
              => /\ result[t].attempts = MAX_RETRY_ATTEMPTS
                 /\ result[t].failed = MAX_RETRY_ATTEMPTS
                 /\ result[t].err = MAX_RETRY_ATTEMPTS

\* read_all has raised WebastoModbusError after three failed attempts
C2_Witness ==
    /\ pc["fg"] = "idle"
    /\ result["fg"].op = "read_all"
    /\ result["fg"].kind = "WebastoModbusError"
    /\ result["fg"].attempts = 3

\* C3: a call returns at its first successful attempt (after one failure:
\* with exactly two attempts), and what read_all returns is the dict of that
\* attempt: every request of the plan is a key and every value was read in
\* the successful attempt.
C3_ResultOfSuccessfulAttempt ==
    \A t \in Tasks :
        (result[t].op \in RetryOps /\ result[t].kind = "ok")
           => /\ result[t].attempts = result[t].failed + 1
              /\ result[t].op = "read_all"
                   => /\ DOMAIN result[t].data = Range(readPlan)
                      /\ \A b \in DOMAIN result[t].data :
                            result[t].data[b] = result[t].attempts

\* read_all has returned after a failed first and a successful second attempt
C3_Witness ==
    /\ pc["fg"] = "idle"
    /\ result["fg"].op = "read_all" /\ result["fg"].kind = "ok"
    /\ result["fg"].failed = 1 /\ result["fg"].attempts = 2

\* C4: a CancelledError thrown into an attempt ends the call at once: the
\* caller gets the CancelledError of that attempt, the task starts no other
\* attempt, does not tear the connection down and sleeps no backoff.
C4_CancelNotRetried ==
    \A t \in Tasks :
        (cancelledAt[t].at \in InAttempt /\ cancelledAt[t].op \in RetryOps)
           => /\ pc[t] \in {"idle", "done"}
              /\ lockOwner # t
              /\ result[t].kind = "CancelledError"
              /\ result[t].op = cancelledAt[t].op

\* a foreground write was cancelled while its second attempt was in flight
C4_Witness ==
    /\ cancelledAt["fg"].at = "inflight"
    /\ cancelledAt["fg"].op = "write_register"
    /\ result["fg"].attempts = 2
    /\ pc["fg"] = "idle"

\* C5: the teardown that follows a failed attempt leaves the connection
\* handle cleared, and a later attempt of the call issues its requests on a
\* client that was connected after that teardown, never on the client of the
\* failed attempt.
C5_FreshConnection ==
    [][\A t \in Tasks :
          /\ (pc[t] = "close_wait" /\ pc'[t] # "close_wait"
                /\ cancelledAt'[t] = NoCancel)
                => client' = None
          /\ (pc'[t] = "inflight" /\ attempt'[t] > 1)
                => /\ reqClient'[t] # None
                   /\ reqClient'[t] # failedClient'[t]
                   /\ fresh'[t]]_vars

\* the second attempt of a foreground read is in flight after the first
\* attempt failed on a client
C5_Witness ==
    /\ pc["fg"] = "inflight" /\ op["fg"] = "read_register"
    /\ attempt["fg"] = 2
    /\ failedClient["fg"] # None

\* C6: async_close called while the keepalive task holds the lock inside a
\* read returns (it does not wait for the end of the read) and leaves the
\* handle cleared, a direct async_connect returns too, and an async_connect
\* that finds the peer reachable leaves a new connected client in the handle.
C6_CloseThenConnect ==
    /\ (op["fg"] = "close" /\ pc["fg"] = "close_wait" /\ lockOwner = "ka")
          ~> (pc["fg"] = "idle")
    /\ (op["fg"] = "connect" /\ pc["fg"] = "connecting") ~> (pc["fg"] = "idle")
    /\ [][(op["fg"] = "close" /\ pc["fg"] = "close_wait"
             /\ pc'["fg"] # "close_wait" /\ cancelledAt'["fg"] = NoCancel)
            => client' = None]_vars
    /\ [][(op["fg"] = "connect" /\ pc["fg"] = "connecting" /\ pc'["fg"] = "idle"
             /\ result'["fg"].kind = "ok")
            => (client' # None /\ client' # client /\ clientUp')]_vars

\* the foreground has closed by force and connected again while the read of
\* the keepalive task is still in flight under the lock
C6_Witness ==
    /\ pc["ka"] = "inflight" /\ op["ka"] = "read_register" /\ lockOwner = "ka"
    /\ pc["fg"] = "idle" /\ forced["fg"]
    /\ result["fg"].op = "connect" /\ result["fg"].kind = "ok"
    /\ client # None /\ clientUp /\ client # reqClient["ka"]

\* C7: once CancelledError has been thrown into the keepalive task, wherever
\* it was suspended, the task has terminated: it holds no lock, has no
\* request in flight and never reads or writes again.
C7_CancelEndsKeepalive ==
    cancelledAt["ka"] # NoCancel
       => /\ pc["ka"] = "done"
          /\ lockOwner # "ka"
          /\ reqClient["ka"] = None

\* the keepalive task was cancelled while its read of the timeout register
\* was in flight, where the loop swallows every Exception
C7_Witness ==
    /\ pc["ka"] = "done"
    /\ cancelledAt["ka"] = [at |-> "inflight", op |-> "read_register",
                            phase |-> "timeout"]

\* a step in which a call of the keepalive loop raises an error other than
\* CancelledError: connect() raises the client's exception, or the teardown
\* of the final attempt is over
KaCallRaises ==
    /\ op["ka"] \in RetryOps
    /\ cancelledAt'["ka"] = NoCancel
    /\ \/ pc["ka"] = "connecting" /\ pc'["ka"] \notin {"connecting", "inflight", "close_wait"}
       \/ /\ pc["ka"] \in {"close_wait", "closing"}
          /\ IsFinalAttempt(attempt["ka"])
          /\ pc'["ka"] \notin {"close_wait", "closing"}

\* C8 as claimed: after every error of a read or write of the keepalive loop
\* the loop waits its error backoff.
C8_Original ==
    [][KaCallRaises => pc'["ka"] = "err_backoff"]_vars

\* C8 as amended: an error of the read of the timeout register is ignored and
\* the cycle goes on with the write of the life bit; every other error of a
\* read or write leads to the error backoff, after which a whole new cycle
\* starts; the task ends only by cancellation.
C8_LoopSurvivesErrors ==
    /\ [][KaCallRaises =>
            IF phase = "timeout"
            THEN pc'["ka"] = "acquire" /\ phase' = "write"
                 /\ op'["ka"] = "write_register" /\ attempt'["ka"] = 1
            ELSE pc'["ka"] = "err_backoff"]_vars
    /\ [][(pc["ka"] = "err_backoff" /\ pc'["ka"] # "err_backoff"
             /\ cancelledAt'["ka"] = NoCancel)
            => (pc'["ka"] = "acquire" /\ phase' = "timeout"
                /\ op'["ka"] = "read_register" /\ attempt'["ka"] = 1)]_vars
    /\ [](pc["ka"] = "done" => cancelledAt["ka"] # NoCancel)

\* the write of the life bit has failed three times and the loop sleeps its
\* error backoff
C8_Witness ==
    /\ pc["ka"] = "err_backoff"
    /\ cancelledAt["ka"] = NoCancel

C10_PrunedForGood ==
    /\ \A b \in protoErr :
          AllOptional(b)
             => /\ b \notin Range(readPlan)
                /\ \A t \in Tasks :
                      (pc[t] = "inflight" /\ op[t] = "read_all")
                         => Head(todo[t]) # b
    /\ Range(readPlan) \subseteq Range(InitialPlan)

\* the response of the request at the head of the foreground's plan iteration
\* is an error response (response.isError())
ErrorResponse(b) ==
    /\ ResponseBlock("fg", "error")
    /\ Head(todo["fg"]) = b

\* after the step, read_all of the foreground has put None under the keys of
\* block b and has not raised: it reads on or has returned its dict
GoesOnWithNull(b) ==
    \/ /\ pc'["fg"] = "inflight" /\ op'["fg"] = "read_all"
       /\ b \in DOMAIN data'["fg"] /\ data'["fg"][b] = None
    \/ /\ pc'["fg"] = "idle" /\ result'["fg"].kind = "ok"
       /\ b \in DOMAIN result'["fg"].data /\ result'["fg"].data[b] = None

\* C11 as claimed: when read_all receives an error response for an
\* all-optional block, the block is pruned and the call keeps every key of the
\* block with value null in the map it builds and returns.
C11_PrunedKeysNull ==
    [][\A b \in Range(InitialPlan) :
          (ErrorResponse(b) /\ AllOptional(b))
             => /\ GoesOnWithNull(b)
                /\ b \notin Range(readPlan')]_vars

\* C12 as claimed: when read_all receives an error response for a block with
\* a non-optional definition, every key of the block is null in this cycle's
\* dict, the remaining requests of the plan are still read in the same cycle,
\* the read plan is unchanged and so the next read_all requests the block
\* again.
C12_NonOptionalKept ==
    [][\A b \in Range(InitialPlan) :
          (ErrorResponse(b) /\ ~AllOptional(b))
             => /\ GoesOnWithNull(b)
                /\ Tail(todo["fg"]) # <<>>
                      => (pc'["fg"] = "inflight" /\ todo'["fg"] = Tail(todo["fg"]))
                /\ readPlan' = readPlan
                /\ b \in Range(readPlan')]_vars

\* C13: in a block that was read successfully a definition gets the value
\* null exactly if the response ends before the last word of its slice; every
\* other definition of that block and of the other blocks is decoded to a
\* value of its type, and read_all returns its dict without raising.
C13_ShortSliceIsNull ==
    /\ stage # "raised"
    /\ \A i \in 1..cursor :
          \A j \in 1..Len(requests[i].registers) :
             LET d == requests[i].registers[j]
                 last == (d.address - requests[i].start_address) + d.count
             IN /\ d.key \in DOMAIN decoded
                /\ decoded[d.key].kind = "None" <=> Len(received[i]) < last
                /\ decoded[d.key].kind # "None"
                      => /\ decoded[d.key].kind
                               = (IF d.data_type = "string" THEN "str" ELSE "int")
                         /\ d.data_type = "uint16"
                               => decoded[d.key].v = received[i][last]
    /\ stage = "returned"
          => DOMAIN decoded = {definitions[k].key : k \in DOMAIN definitions}

\* read_all has returned a dict in which one key of a block is null and
\* another key of the same block and a key of another block hold values
C13_Witness ==
    /\ stage = "returned" /\ Len(requests) = 2
    /\ \E i \in 1..2 :
          /\ \E j, k \in 1..Len(requests[i].registers) :
                /\ decoded[requests[i].registers[j].key].kind = "None"
                /\ decoded[requests[i].registers[k].key].kind # "None"
          /\ decoded[requests[3 - i].registers[1].key].kind # "None"

\* C14: async_write_register on a definition that is not writable raises
\* ValueError at once: the call makes no attempt, takes no lock, opens no
\* connection, sends no request and leaves the handle as it is.
C14_NotWritableRefused ==
    [][StartCall("fg", "write_register", FALSE)
          => /\ pc'["fg"] = "idle"
             /\ result'["fg"].op = "write_register"
             /\ result'["fg"].kind = "ValueError"
             /\ result'["fg"].attempts = 0
             /\ attempt'["fg"] = 0
             /\ reqClient'["fg"] = None
             /\ lockOwner' = lockOwner /\ lockOwner' # "fg"
             /\ client' = client /\ clientUp' = clientUp]_vars

\* a write of a register that is not writable was refused while the bridge
\* was connected and a request of the keepalive task was in flight
C14_Witness ==
    /\ pc["fg"] = "idle"
    /\ result["fg"].op = "write_register" /\ result["fg"].kind = "ValueError"
    /\ client # None /\ clientUp
    /\ pc["ka"] = "inflight"

\* C15 as claimed: async_connect on a bridge that holds a connected client
\* returns at once and leaves the handle as it is; async_connect whose peer
\* does not become ready fails with WebastoModbusError and leaves the handle
\* as it is.
C15_ConnectIdempotent ==
    [][/\ (StartConnect("fg") /\ client # None /\ clientUp)
             => /\ pc'["fg"] = "idle" /\ result'["fg"].kind = "ok"
                /\ client' = client /\ clientUp'
       \* a direct async_connect of the foreground ends without success and
       \* without having been cancelled
       /\ (/\ op["fg"] = "connect" /\ pc["fg"] = "connecting"
           /\ pc'["fg"] = "idle" /\ result'["fg"].kind # "ok"
           /\ cancelledAt'["fg"] = NoCancel)
             => /\ result'["fg"].kind = "WebastoModbusError"
                /\ client' = client /\ clientUp' = clientUp]_vars

\* C16: with no other operation running, async_close returns normally in
\* every state; it calls close() of the client exactly if the handle held one
\* (never connected or already closed: no call), takes the client out of the
\* handle in the same step so that no second call can close it again, and
\* when it returns the handle is absent.
C16_CloseIdempotent ==
    \* a direct async_close of the foreground returns
    /\ [][(/\ op["fg"] = "close" /\ pc["fg"] \in {"close_wait", "closing"}
           /\ pc'["fg"] = "idle")
            => (result'["fg"].kind = "ok" /\ client' = None)]_vars
    /\ [][(op["fg"] = "close" /\ pc["fg"] = "close_wait"
             /\ pc'["fg"] # "close_wait")
            => /\ client' = None
               /\ pc'["fg"] = (IF client # None THEN "closing" ELSE "idle")]_vars
    /\ [](pc["fg"] = "closing" => client = None)

\* async_close has taken the client of a connected bridge out of the handle
\* and waits for its close()
C16_Witness ==
    /\ pc["fg"] = "closing" /\ op["fg"] = "close"
    /\ client = None /\ lockOwner = NoTask

\* definition d is among the registers of request r
InRequest(r, d) == \E j \in DOMAIN r.registers : r.registers[j].key = d.key

\* the request of the plan that holds definition d
RequestOf(d) == CHOOSE r \in Range(requests) : InRequest(r, d)

\* C17 as claimed: a definition is put into the request of its predecessor in
\* address order exactly if it starts at or before the end of that request's
\* span (contiguous or overlapping) and the merged span has at most
\* MAX_REGISTERS_PER_REQUEST words; two one-word registers at a and a + 1 are
\* read by one request.
C17_MergeRule ==
    LET
        \* the end of the span of the request of items[i - 1] when the sweep reaches
        \* items[i]
        EndBefore(items, i) ==
            Greatest({items[j].address + items[j].count :
                         j \in {k \in 1..(i - 1) :
                                   InRequest(RequestOf(items[i - 1]), items[k])}})
        \* the definitions of one register type in the order of the sweep
        Swept(ty) == SortedByAddress(OfType(definitions, ty))
    IN
    stage = "planned" =>
       \A t \in DOMAIN RegisterTypes :
          LET items == Swept(RegisterTypes[t])
          IN \A i \in 2..Len(items) :
                InRequest(RequestOf(items[i - 1]), items[i])
                   <=> /\ items[i].address <= EndBefore(items, i)
                       /\ items[i].address + items[i].count
                             - RequestOf(items[i - 1]).start_address
                                <= MAX_REGISTERS_PER_REQUEST

\* C18: every definition of the catalog is among the registers of exactly one
\* request of the plan, once, and its words lie inside the span of that
\* request.
C18_EachDefinitionOnce ==
    stage = "planned" =>
       /\ \A k \in DOMAIN definitions :
             Cardinality({<<i, j>> \in (DOMAIN requests) \X (1..MaxDefs) :
                             /\ j \in DOMAIN requests[i].registers
                             /\ requests[i].registers[j] = definitions[k]}) = 1
       /\ \A i \in DOMAIN requests :
             \A j \in DOMAIN requests[i].registers :
                LET d == requests[i].registers[j]
                IN /\ \E k \in DOMAIN definitions : d = definitions[k]
                   /\ requests[i].start_address <= d.address
                   /\ d.address + d.count
                         <= requests[i].start_address + requests[i].count

\* a plan of two requests, one of them with a definition that ends before the
\* end of a wider definition placed ahead of it
C18_Witness ==
    /\ stage = "planned" /\ Len(requests) = 2
    /\ \E i \in DOMAIN requests :
          /\ Len(requests[i].registers) = 2
          /\ requests[i].registers[2].address + requests[i].registers[2].count
                < requests[i].start_address + requests[i].count

\* C19: no request of the plan has more than MAX_REGISTERS_PER_REQUEST words
\* (no single definition of the catalogs has more).
C19_RequestWithinLimit ==
    stage = "planned" =>
       \A i \in DOMAIN requests :
          /\ requests[i].count <= MAX_REGISTERS_PER_REQUEST
          /\ requests[i].count >= 1

\* a definition that overlaps the open request was put into a request of its
\* own because the merged span would have had 111 words, and another request
\* of 110 words holds two definitions
C19_Witness ==
    /\ stage = "planned"
    /\ \E i, j \in DOMAIN requests :
          /\ i # j
          /\ requests[i].register_type = requests[j].register_type
          /\ requests[i].start_address < requests[j].start_address
          /\ requests[j].start_address
                < requests[i].start_address + requests[i].count
          /\ requests[j].count = MAX_REGISTERS_PER_REQUEST
    /\ \E i \in DOMAIN requests :
          /\ requests[i].count = MAX_REGISTERS_PER_REQUEST
          /\ Len(requests[i].registers) >= 2

\* C20: with the default scenario the virtual wallbox exists, and after any
\* sequence of writes of the start and stop values to the session-command
\* register each write returned and the registers read back reflect the last
\* command written: after start charging_state is 1, charge_point_state is 2,
\* the total power is 7400 and each phase power 2466; after stop all are 0.
C20_LastCommandReflected ==
    LET
        \* the registers the session command mirrors read back as `state`, `point`,
        \* `total` and `per_phase`
        SessionReadsAs(state, point, total, per_phase) ==
            /\ ReadsAs("charging_state") = PyInt(state)
            /\ ReadsAs("charge_point_state") = PyInt(point)
            /\ ReadsAs("active_power_total_w") = PyInt(total)
            /\ ReadsAs("active_power_l1_w") = PyInt(per_phase)
            /\ ReadsAs("active_power_l2_w") = PyInt(per_phase)
            /\ ReadsAs("active_power_l3_w") = PyInt(per_phase)
    IN
    scenario = "default" =>
        /\ simState # "failed"
        /\ (simState = "ready" /\ commandsOnly /\ lastCommand # None) =>
              /\ simRaised = "none"
              /\ lastCommand = SESSION_COMMAND_START_VALUE =>
                    SessionReadsAs(1, 2, 7400, 2466)
              /\ lastCommand = SESSION_COMMAND_STOP_VALUE =>
                    SessionReadsAs(0, 0, 0, 0)

\* C21: read_block returns exactly count words for every register type, start
\* address and count >= 0, the word held at each address and 0 where no word
\* is held; right after the creation of a wallbox without initial values and
\* right after reset() every word it returns is 0, whatever was written before.
C21_ReadBlockTotal ==
    LET ReadTypes == {"input", "holding", "coil"}
        ReadStarts == {999, 1001, 1003, 5006}
        ReadSizes == 0..3
        store(ty) == IF ty = "input" THEN inputRegisters ELSE holdingRegisters
        block(ty, s, c) ==
            ReadBlock(Stores(inputRegisters, holdingRegisters), ty, s, c)
    IN simState = "ready" =>
         \A ty \in ReadTypes, s \in ReadStarts, c \in ReadSizes :
            /\ Len(block(ty, s, c)) = c
            /\ \A j \in 1..c :
                  block(ty, s, c)[j] = IF s + j - 1 \in DOMAIN store(ty)
                                      THEN store(ty)[s + j - 1] ELSE 0
            /\ (simRaised = "none" /\ lastCall \in {"create", "reset"}) =>
                  \A j \in 1..c : block(ty, s, c)[j] = 0

\* a word was written to an address outside the catalog and a session command
\* was written, then the store was reset
C21_Witness ==
    /\ simState = "ready" /\ lastCall = "reset"
    /\ lastCommand # None
    /\ 1003 \notin DOMAIN holdingRegisters

\* C22: the server applies its address normalization exactly once on every
\* path. A read of protocol address a on a data block or through the device
\* context returns the words at store offset a + 1 with zero_mode disabled and
\* at store offset a with zero_mode enabled (a word that is 0 there being taken
\* from the other store at the same offset); a write to a holding block stores
\* its first word at that offset, every further word behind it unless a write
\* raised, and leaves the neighbouring offsets as they are; a write to an input
\* block changes nothing.
C22_SingleOffset ==
    [][LET p == served'.path
           z == served'.zero_mode
           a == served'.address
           v == served'.values
           off == IF z THEN a ELSE a + 1
           word(store, x) == IF x \in DOMAIN store THEN store[x] ELSE 0
           same(x) == /\ (x \in DOMAIN holdingRegisters')
                          = (x \in DOMAIN holdingRegisters)
                      /\ word(holdingRegisters', x) = word(holdingRegisters, x)
       IN /\ ServerRead(p, z, "holding", a, Len(v)) =>
                v = [j \in 1..Len(v) |->
                       IF word(holdingRegisters, off + j - 1) # 0
                       THEN word(holdingRegisters, off + j - 1)
                       ELSE word(inputRegisters, off + j - 1)]
          /\ ServerRead(p, z, "input", a, Len(v)) =>
                v = [j \in 1..Len(v) |->
                       IF word(inputRegisters, off + j - 1) # 0
                       THEN word(inputRegisters, off + j - 1)
                       ELSE word(holdingRegisters, off + j - 1)]
          /\ ServerWrite(p, z, "holding", a, v) =>
                /\ holdingRegisters'[off] = v[1]
                /\ simRaised' = "none" =>
                      \A j \in 1..Len(v) : holdingRegisters'[off + j - 1] = v[j]
                /\ \A x \in ((a - 1)..(a + 3)) \ {off + j - 1 : j \in 1..Len(v)} :
                      same(x)
          /\ ServerWrite(p, z, "input", a, v) =>
                /\ holdingRegisters' = holdingRegisters
                /\ inputRegisters' = inputRegisters]_vars

\* the device context of a server without zero_mode was asked for protocol
\* address 1000 and returned the word at store offset 1001, which differs
\* from the words at 1000 and 1002
C22_Witness ==
    /\ served.call = "getValues" /\ served.path = "context"
    /\ ~served.zero_mode /\ served.register_type = "holding"
    /\ served.address = 1000 /\ served.values = <<1>>
    /\ holdingRegisters[1000] = 2 /\ holdingRegisters[1001] = 1
    /\ holdingRegisters[1002] = 0

\* C23: for an applied entry of a uint16 or uint32 definition with scale 1 and
\* an integer of its width, or of a string definition and a text that fits
\* it, the decoder returns the value back from the words of the encoder, and
\* so does a read of the register from the store; the words of a uint32 are
\* the most significant word followed by the least significant one.
C23_EncodeDecodeInverse ==
    [][\A e \in ApplySet :
         (SimApply(e[1], e[2]) /\ simRaised' = "none" /\ e[2].kind # "None") =>
            LET d == ByKey(e[1])
                words == EncodeValue(d, e[2]).words
                stored == ReadBlock(Stores(inputRegisters', holdingRegisters'),
                                    d.register_type, d.address, d.count)
            IN /\ DecodeRegister(d, words) = e[2]
               /\ DecodeRegister(d, stored) = e[2]
               /\ d.data_type = "uint32" =>
                     /\ words[1] = e[2].v \div 65536
                     /\ words[2] = e[2].v % 65536]_vars

\* a uint32 register holds a value that fills both words and a string
\* register a text of odd length, and both read back as applied
C23_Witness ==
    /\ simState = "ready" /\ lastCall = "apply" /\ simRaised = "none"
    /\ holdingRegisters[1020] = 32766 /\ holdingRegisters[1021] = 32767
    /\ ReadsAs("active_power_total_w") = PyInt(2147385343)
    /\ ReadsAs("session_user_id") = PyStr(<<65, 32, 66>>)

C25_FailureBookkeeping ==
    /\ coordinator.consecutive_failures = observed.failedSince
    /\ observed.outcome = "WebastoModbusError" =>
          (observed.created <=>
              observed.failedSince >= FAILURE_NOTIFICATION_THRESHOLD)
    /\ observed.outcome = "ok" =>
          /\ coordinator.consecutive_failures = 0
          /\ observed.dismissed /\ ~observed.created
          /\ ~coordinator.notification
    /\ coordinator.notification =>
          observed.failedSince >= FAILURE_NOTIFICATION_THRESHOLD

\* the third failure in a row after an earlier success has created the
\* notification
C25_Witness ==
    /\ observed.outcome = "WebastoModbusError" /\ observed.created
    /\ observed.failedSince = FAILURE_NOTIFICATION_THRESHOLD
    /\ observed.updates > FAILURE_NOTIFICATION_THRESHOLD
    /\ coordinator.notification

\* C26: an update fires connection_lost exactly if it fails and the update
\* handled before it succeeded or there was none, and connection_restored
\* exactly if it succeeds and the update handled before it failed; the first
\* trigger fired is connection_lost and no trigger is fired twice in a row.
C26_TriggersAlternate ==
    [][/\ observed'.fired = "connection_lost" <=>
             /\ observed'.outcome = "WebastoModbusError"
             /\ observed.lastHandled \in {"none", "ok"}
       /\ observed'.fired = "connection_restored" <=>
             /\ observed'.outcome = "ok"
             /\ observed.lastHandled = "WebastoModbusError"
       /\ observed'.fired # "none" =>
             /\ observed'.fired # observed.lastFired
             /\ observed.lastFired = "none" => observed'.fired = "connection_lost"]_vars

\* connection_restored is fired by the first success after two failures, the
\* second of which fired nothing
C26_Witness ==
    /\ observed.fired = "connection_restored" /\ observed.updates = 3
    /\ observed.lastFired = "connection_restored"
    /\ coordinator.connection_online

\* C27: a service handler raises HomeAssistantError exactly if one of its
\* writes failed with WebastoModbusError, and then that write is the last
\* thing it did; a register-written signal or keepalive trigger directly
\* follows the successful write of its register, and the refresh request
\* follows only writes that all succeeded.
C27_EffectsOnlyAfterSuccess ==
    LET log == service.log
        effects == {"signal", "trigger", "refresh"}
    IN /\ service.raised = "HomeAssistantError" <=>
             \E i \in DOMAIN log : log[i][1] = "WebastoModbusError"
       /\ \A i \in DOMAIN log :
             /\ log[i][1] \in {"WebastoModbusError", "other"} => i = Len(log)
             /\ log[i][1] \in {"signal", "trigger"} =>
                   i > 1 /\ log[i - 1] = <<"ok", log[i][2]>>
             /\ log[i][1] = "refresh" =>
                   /\ i > 1 /\ i = Len(log)
                   /\ \A j \in 1..(i - 1) : log[j][1] \in effects \cup {"ok"}

\* set_failsafe has written the current and dispatched its signal, and the
\* write of the timeout has failed
C27_Witness ==
    /\ service.handler = "set_failsafe" /\ service.raised = "HomeAssistantError"
    /\ service.log = <<<<"ok", "failsafe_current_a">>,
                       <<"signal", "failsafe_current_a">>,
                       <<"WebastoModbusError", "failsafe_timeout_s">>>>

\* C28 as claimed: whenever a task issues a request inside the locked section
\* the connection handle is present and is the client the request goes to;
\* whatever close() does in another task, a read_all that has received the
\* response of a block and has further blocks to read finds the handle
\* present.
C28_HandlePresentAtIssue ==
    [][\A t \in Tasks :
          /\ (pc'[t] = "inflight" /\ (pc[t] # "inflight" \/ todo'[t] # todo[t]))
                => (client' # None /\ reqClient'[t] = client')
          /\ (t = "fg" /\ ResponseBlock("fg", "ok") /\ Tail(todo["fg"]) # <<>>)
                => client # None]_vars

\* C29: the keepalive task starts its calls in the order of a cycle: the
\* write of the life bit follows the one read of the timeout register of the
\* cycle, the first poll read follows the successful return of the write,
\* further poll reads follow poll reads, and a read of the timeout register
\* (the next cycle) follows a write, a poll read or the error backoff; no
\* call of the cycle is started a second time.
C29_CycleOrder ==
    [][(pc'["ka"] = "acquire" /\ attempt'["ka"] = 1 /\ pc["ka"] # "acquire")
          => /\ op'["ka"] = (IF phase' = "write" THEN "write_register"
                             ELSE "read_register")
             /\ phase' = "write" => phase = "timeout"
             /\ phase' = "poll" =>
                   \/ /\ phase = "write" /\ op["ka"] = "write_register"
                      /\ \E v \in {0, 1} : ResponseSingle("ka", "ok", v, FALSE)
                   \/ /\ phase = "poll" /\ pc["ka"] \in {"inflight", "poll_sleep"}
             /\ phase' = "timeout" =>
                   \/ phase \in {"write", "poll"}
                   \/ pc["ka"] = "err_backoff"]_vars

\* a poll read of the life bit is in flight in its second attempt
C29_Witness ==
    /\ phase = "poll" /\ pc["ka"] = "inflight" /\ op["ka"] = "read_register"
    /\ attempt["ka"] = 2

\* C30 as claimed: when the read of the timeout register raises in a cycle,
\* the loop goes on to the write of the life bit, and the poll window of the
\* cycle is the value of the most recent successful read of the register.
C30_LastKnownWindow ==
    /\ [][(loop.at = "read_timeout" /\ loop'.read_failed) => loop'.at = "write"]_vars
    /\ []((loop.read_failed /\ loop.at \in {"write", "poll", "sleep"}
              /\ loop.last_known # <<>>)
            => loop.poll_timeout = loop.last_known[1])

\* C31: a poll that reads 0 ends the polling of the cycle, and so does the
\* check of the window once the seconds since the write have reached it; no
\* poll read is started outside the window; either way the loop enters the
\* next cycle without sleep, error or backoff, and that cycle reaches its
\* write of the life bit whatever its read of the timeout register does
\* short of a cancellation. The error backoff is entered only by an
\* exception of the write or of a poll read.
C31_PollingStops ==
    [][/\ (\E took \in {0, 1} : PollEnds("ok", 0, took))
             => (loop'.at = "read_timeout" /\ loop'.ended = "cleared")
       /\ (loop.at = "sleep" /\ SleepEnds("ok"))
             => \/ loop.waited + 1 < loop.poll_timeout /\ loop'.at = "poll"
                \/ /\ loop.waited + 1 >= loop.poll_timeout
                   /\ loop'.at = "read_timeout" /\ loop'.ended = "elapsed"
       /\ (loop'.at = "poll" /\ loop.at # "poll")
             => loop'.waited < loop'.poll_timeout
       /\ (loop.at = "read_timeout" /\ loop.ended # "none"
             /\ loop'.at \notin {"read_timeout", "cancelled"})
             => loop'.at = "write"
       /\ (loop'.at = "backoff" /\ loop.at # "backoff")
             => (loop.at \in {"write", "poll"} /\ loop'.ended = loop.ended)]_vars

\* a window has elapsed without the life bit clearing, and the next cycle,
\* after the timeout register has been read as 2 before, has reached its write
C31_Witness ==
    /\ loop.at = "write" /\ loop.ended = "elapsed" /\ loop.waited = 0
    /\ loop.last_known = <<2>>

\* C32 as claimed: when connect() fails inside an attempt of a read or write,
\* by returning with the client not connected or by raising the client's
\* exception, the attempt counts as failed: the task records the error of
\* this attempt and enters async_close (from where it retries or, after the
\* last attempt, raises WebastoModbusError); the caller never sees the
\* client's exception.
C32_ConnectFailureRetried ==
    /\ [][\A t \in Tasks :
             (pc[t] = "connecting" /\ op[t] \in RetryOps /\ ConnectDone(t, FALSE))
                => (pc'[t] = "close_wait" /\ lastErr'[t] = attempt[t])]_vars
    /\ [](result["fg"].op \in RetryOps => result["fg"].kind # "ModbusException")

\* C33 as claimed: a write of a value with an entry in the action table to
\* the session-command register either returns, and then every register of
\* the action reads back its new value, or raises, and then none of the
\* registers of the action has changed.
C33_ActionAtomic ==
    [][\A v \in {SESSION_COMMAND_START_VALUE, SESSION_COMMAND_STOP_VALUE} :
          (simState = "ready" /\ SimWrite(5006, v))
             => \/ /\ simRaised' = "none"
                   /\ ReadsAs("charging_state")' =
                         PyInt(IF v = SESSION_COMMAND_START_VALUE THEN 1 ELSE 0)
                   /\ ReadsAs("active_power_l3_w")' =
                         PyInt(IF v = SESSION_COMMAND_START_VALUE THEN 2466 ELSE 0)
                \/ /\ simRaised' # "none"
                   /\ \A key \in {"charging_state", "charge_point_state",
                                   "active_power_total_w", "active_power_l1_w",
                                   "active_power_l2_w", "active_power_l3_w"} :
                         ReadsAs(key)' = ReadsAs(key)]_vars

\* C34 as claimed: an error response for an all-optional block removes
\* exactly that request from the read plan; every other request stays in the
\* plan, in its place.
C34_PrunesExactlyOne ==
    [][\A b \in Range(InitialPlan) :
          (ErrorResponse(b) /\ AllOptional(b))
             => readPlan' = SelectSeq(readPlan, LAMBDA r : r # b)]_vars

\* C35 as claimed: the words getValues returns for a register category are
\* the words of that category's store at the requested addresses, a stored 0
\* included, whatever the store of the other category holds there.
C35_OwnStoreOnly ==
    served.call = "getValues" =>
        served.values =
            ReadBlock(Stores(inputRegisters, holdingRegisters), served.register_type,
                      NormalizeAddress(served.zero_mode, served.address),
                      Len(served.values))

\* C36: the unload closes the connection only after the keepalive task has
\* terminated; once the unload has finished the keepalive task is terminated
\* and holds no lock, the connection handle is absent, and no step changes
\* that afterwards.
C36_UnloadStopsThenCloses ==
    /\ [][(op'["fg"] = "close" /\ op["fg"] # "close") => pc["ka"] = "done"]_vars
    /\ []((pc["fg"] = "idle" /\ result["fg"].op = "close")
            => (pc["ka"] = "done" /\ client = None /\ lockOwner = NoTask))
    /\ [][(pc["fg"] = "idle" /\ result["fg"].op = "close")
            => (pc'["ka"] = "done" /\ client' = None)]_vars

\* the unload has finished after the keepalive task was cancelled with a
\* request in flight on a connected client
C36_Witness ==
    /\ pc["fg"] = "idle" /\ result["fg"].op = "close"
    /\ cancelledAt["ka"].at = "inflight" /\ pc["ka"] = "done"
    /\ client = None

\* C37 as claimed: as long as every unload was successful, the services
\* are registered exactly while at least one entry is loaded: they are
\* removed when the last loaded entry has been unloaded.
C37_ServicesWhileLoaded ==
    hass.failed = {} => (hass.services <=> hass.loaded # {})

\* C38: every definition among the registers of a request of the plan has
\* the register type of that request, whatever the addresses of the
\* definitions of the other type are.
C38_OneCategoryPerRequest ==
    stage = "planned" =>
       \A i \in DOMAIN requests :
          \A j \in DOMAIN requests[i].registers :
             requests[i].registers[j].register_type = requests[i].register_type

\* an input definition and a holding definition whose spans overlap are read
\* by two requests
C38_Witness ==
    /\ stage = "planned" /\ Len(definitions) = 2 /\ Len(requests) = 2
    /\ definitions[1].register_type = "input"
    /\ definitions[2].register_type = "holding"
    /\ definitions[1].address = 0 /\ definitions[1].count = 2
    /\ definitions[2].address = 1 /\ definitions[2].count = 2

\* C39 as claimed: the requests of the plan are in ascending order of their
\* start addresses, and requests with the same start address are in the
\* order of their register types.
C39_OrderedByAddress ==
    stage = "planned" =>
       \A i, j \in DOMAIN requests :
          i < j =>
             \/ requests[i].start_address < requests[j].start_address
             \/ /\ requests[i].start_address = requests[j].start_address
                /\ requests[i].register_type = "holding"
                /\ requests[j].register_type = "input"

\* C40: while a virtual wallbox exists, every word address of every
\* definition of the catalog is a key of the store of the definition's
\* register type, after calls that returned and after calls that raised.
C40_WordsPresent ==
    simState = "ready" =>
       \A i \in DOMAIN SimCatalog :
          \A o \in 0..(SimCatalog[i].count - 1) :
             SimCatalog[i].address + o \in
                DOMAIN (IF SimCatalog[i].register_type = "input"
                        THEN inputRegisters ELSE holdingRegisters)

\* a write of a session command has raised after a part of its updates, and
\* a word outside the catalog has been written before
C40_Witness ==
    /\ simState = "ready" /\ lastCall = "write" /\ simRaised = "KeyError"
    /\ 1003 \in DOMAIN holdingRegisters

====
